---- MODULE Spec2Model ----
(***************************************************************************)
(* A model of the jai ticket document codec (internal/markdown/parser.go)  *)
(* and of the command-layer operations built on it.                        *)
(*                                                                         *)
(* Text is modelled as a sequence of one-character strings, so that the    *)
(* string operations of the code (TrimSpace, HasPrefix, TrimPrefix, Join,  *)
(* line scanning, the two regular expressions) are computed character by   *)
(* character as the code computes them.                                    *)
(***************************************************************************)
EXTENDS Integers, Sequences, FiniteSets, TLC

(***************************************************************************)
(* Characters                                                              *)
(***************************************************************************)
\* unicode.IsSpace / regexp \s, restricted to the characters the model uses
Whitespace == {" ", "\t", "\n", "\r"}

\* regexp class [A-Z]
Upper == {"A", "B", "C", "D", "E", "F", "G", "H", "I", "J", "K", "L", "M",
          "N", "O", "P", "Q", "R", "S", "T", "U", "V", "W", "X", "Y", "Z"}

\* regexp class \d
Digit == {"0", "1", "2", "3", "4", "5", "6", "7", "8", "9"}

NL == <<"\n">>

(***************************************************************************)
(* Go's strings package, as used by the parser                             *)
(***************************************************************************)
MinOf(S) == CHOOSE x \in S : \A y \in S : x <= y

MaxOf(S) == CHOOSE x \in S : \A y \in S : y <= x

\* strings.TrimSpace
TrimSpace(s) ==
    LET keep == {i \in 1..Len(s) : s[i] \notin Whitespace}
    IN  IF keep = {} THEN <<>> ELSE SubSeq(s, MinOf(keep), MaxOf(keep))

\* strings.HasPrefix
HasPrefix(s, p) == Len(s) >= Len(p) /\ SubSeq(s, 1, Len(p)) = p

\* strings.TrimPrefix
TrimPrefix(s, p) == IF HasPrefix(s, p) THEN SubSeq(s, Len(p) + 1, Len(s)) ELSE s

\* strings.Contains: s occurs in t as a contiguous piece
Contains(t, s) ==
    \E i \in 1..(Len(t) - Len(s) + 1) : SubSeq(t, i, i + Len(s) - 1) = s

\* strings.HasSuffix
HasSuffix(s, p) == Len(s) >= Len(p) /\ SubSeq(s, Len(s) - Len(p) + 1, Len(s)) = p

\* strings.Join
RECURSIVE Join(_, _)
Join(elems, sep) ==
    IF elems = <<>> THEN <<>>
    ELSE IF Len(elems) = 1 THEN elems[1]
    ELSE elems[1] \o sep \o Join(Tail(elems), sep)

\* bufio.ScanLines: the text up to the next newline, without a trailing "\r";
\* a final line without newline is returned when it is not empty. The scanner
\* stops at a line longer than its 64 KiB buffer; the model has no such line.
dropCR(line) ==
    IF Len(line) > 0 /\ line[Len(line)] = "\r"
    THEN SubSeq(line, 1, Len(line) - 1)
    ELSE line

RECURSIVE ScanLines(_)
ScanLines(text) ==
    IF text = <<>> THEN <<>>
    ELSE LET nls == {i \in 1..Len(text) : text[i] = "\n"}
         IN  IF nls = {} THEN <<dropCR(text)>>
             ELSE LET n == MinOf(nls)
                  IN  <<dropCR(SubSeq(text, 1, n - 1))>>
                          \o ScanLines(SubSeq(text, n + 1, Len(text)))

(***************************************************************************)
(* The two regular expressions                                             *)
(***************************************************************************)
\* first index at or after i whose character is not in class
RECURSIVE RunEnd(_, _, _)
RunEnd(s, i, class) ==
    IF i <= Len(s) /\ s[i] \in class THEN RunEnd(s, i + 1, class) ELSE i

\* [A-Z]+-\d+ matched at i: the index after the match, 0 when there is none
KeyCoreEnd(s, i) ==
    LET u == RunEnd(s, i, Upper)
    IN  IF u > i /\ u <= Len(s) /\ s[u] = "-"
        THEN LET d == RunEnd(s, u + 1, Digit)
             IN  IF d > u + 1 THEN d ELSE 0
        ELSE 0

\* \[?([A-Z]+-\d+)\]? matched at i: the submatch, <<>> when there is no match
KeyGroupAt(s, i) ==
    LET b == IF i <= Len(s) /\ s[i] = "[" THEN i + 1 ELSE i
        e == KeyCoreEnd(s, b)
    IN  IF e = 0 THEN <<>> ELSE SubSeq(s, b, e - 1)

\* extractJiraKey: regexp.FindStringSubmatch, leftmost match
extractJiraKey(text) ==
    LET starts == {i \in 1..Len(text) : KeyGroupAt(text, i) # <<>>}
    IN  IF starts = {} THEN <<>> ELSE KeyGroupAt(text, MinOf(starts))

\* \s*\[?[A-Z]+-\d+\]?\s* matched at i: the index after the match, 0 when none
RemoveMatchEnd(s, i) ==
    LET w == RunEnd(s, i, Whitespace)
        b == IF w <= Len(s) /\ s[w] = "[" THEN w + 1 ELSE w
        e == KeyCoreEnd(s, b)
    IN  IF e = 0 THEN 0
        ELSE LET c == IF e <= Len(s) /\ s[e] = "]" THEN e + 1 ELSE e
             IN  RunEnd(s, c, Whitespace)

\* regexp.ReplaceAllString(text, ""): leftmost matches, left to right
RECURSIVE ReplaceAllFrom(_, _)
ReplaceAllFrom(s, i) ==
    IF i > Len(s) THEN <<>>
    ELSE LET e == RemoveMatchEnd(s, i)
         IN  IF e > 0 THEN ReplaceAllFrom(s, e)
             ELSE <<s[i]>> \o ReplaceAllFrom(s, i + 1)

\* RemoveJiraKey
RemoveJiraKey(text) == TrimSpace(ReplaceAllFrom(text, 1))

(***************************************************************************)
(* Ticket records (types.Ticket) and the markers of the text format        *)
(***************************************************************************)
TicketTypeEpic == "epic"

TicketTypeTask == "task"

TicketTypeSubtask == "subtask"

TicketTypeSpike == "spike"

TicketTypes == {TicketTypeEpic, TicketTypeTask, TicketTypeSubtask, TicketTypeSpike}

\* the zero value &types.Ticket{}; fields the codec never reads are left out
ZeroTicket ==
    [Key |-> <<>>, Type |-> "", Title |-> <<>>, RawContent |-> <<>>,
     Enriched |-> <<>>, Status |-> <<>>, Priority |-> <<>>,
     ParentKey |-> <<>>, EpicKey |-> <<>>, LineNumber |-> 0]

EpicMarker == <<"#", " ", "e", "p", "i", "c", ":">>

TaskMarker == <<"#", "#", " ", "t", "a", "s", "k", ":">>

SubtaskMarker == <<"#", "#", "#", " ", "s", "u", "b", "t", "a", "s", "k", ":">>

Rule == <<"-", "-", "-">>

MetadataMarker == <<"*", "M", "e", "t", "a", "d", "a", "t", "a", ":", "*">>

EnrichedMarker == <<"*", "E", "n", "r", "i", "c", "h", "e", "d", ":", "*">>

(***************************************************************************)
(* Metadata Block Codec: parseMetadataLine, parseMetadataLines             *)
(***************************************************************************)
FieldValue(metaLine, name) == TrimSpace(TrimPrefix(metaLine, name))

\* every field line sets the status
parseMetadataLineAnyField(rawLine, ticket) ==
    LET trimmed == TrimSpace(rawLine)
        metaLine == TrimPrefix(trimmed, <<"-", " ">>)
    IN  IF ~HasPrefix(trimmed, <<"-", " ">>) THEN ticket
        ELSE [ticket EXCEPT !.Status = metaLine]

parseMetadataLine(rawLine, ticket) ==
    LET trimmed == TrimSpace(rawLine)
        metaLine == TrimPrefix(trimmed, <<"-", " ">>)
    IN  IF ~HasPrefix(trimmed, <<"-", " ">>) THEN ticket
        ELSE IF HasPrefix(metaLine, <<"K", "e", "y", ":">>)
            THEN [ticket EXCEPT !.Key = FieldValue(metaLine, <<"K", "e", "y", ":">>)]
        ELSE IF HasPrefix(metaLine, <<"S", "t", "a", "t", "u", "s", ":">>)
            THEN [ticket EXCEPT !.Status = FieldValue(metaLine, <<"S", "t", "a", "t", "u", "s", ":">>)]
        ELSE IF HasPrefix(metaLine, <<"P", "r", "i", "o", "r", "i", "t", "y", ":">>)
            THEN [ticket EXCEPT !.Priority = FieldValue(metaLine, <<"P", "r", "i", "o", "r", "i", "t", "y", ":">>)]
        ELSE IF HasPrefix(metaLine, <<"E", "p", "i", "c", "K", "e", "y", ":">>)
            THEN [ticket EXCEPT !.EpicKey = FieldValue(metaLine, <<"E", "p", "i", "c", "K", "e", "y", ":">>)]
        ELSE IF HasPrefix(metaLine, <<"P", "a", "r", "e", "n", "t", "K", "e", "y", ":">>)
            THEN IF ticket.Type = TicketTypeTask
                 THEN [ticket EXCEPT !.EpicKey = FieldValue(metaLine, <<"P", "a", "r", "e", "n", "t", "K", "e", "y", ":">>)]
                 ELSE IF ticket.Type = TicketTypeSubtask
                 THEN [ticket EXCEPT !.ParentKey = FieldValue(metaLine, <<"P", "a", "r", "e", "n", "t", "K", "e", "y", ":">>)]
                 ELSE ticket
        ELSE IF HasPrefix(metaLine, <<"T", "a", "s", "k", "K", "e", "y", ":">>)
            THEN IF ticket.Type = TicketTypeSubtask
                 THEN [ticket EXCEPT !.ParentKey = FieldValue(metaLine, <<"T", "a", "s", "k", "K", "e", "y", ":">>)]
                 ELSE ticket
        ELSE IF HasPrefix(metaLine, <<"P", "a", "r", "e", "n", "t", "T", "a", "s", "k", ":">>)
            THEN [ticket EXCEPT !.ParentKey = FieldValue(metaLine, <<"P", "a", "r", "e", "n", "t", "T", "a", "s", "k", ":">>)]
        ELSE IF HasPrefix(metaLine, <<"P", "a", "r", "e", "n", "t", "E", "p", "i", "c", ":">>)
            THEN [ticket EXCEPT !.EpicKey = FieldValue(metaLine, <<"P", "a", "r", "e", "n", "t", "E", "p", "i", "c", ":">>)]
        ELSE ticket

RECURSIVE parseMetadataLines(_, _)
parseMetadataLines(lines, ticket) ==
    IF lines = <<>> THEN ticket
    ELSE parseMetadataLines(Tail(lines),
                            parseMetadataLine(TrimSpace(Head(lines)), ticket))

(***************************************************************************)
(* Header Codec: isTicketHeader, parseTicketHeader, generateHeader         *)
(***************************************************************************)
\* isTicketHeader without its third alternative
isTicketHeaderNoSubtask(rawLine) ==
    LET line == TrimSpace(rawLine)
    IN  \/ HasPrefix(line, EpicMarker)
        \/ HasPrefix(line, TaskMarker)

isTicketHeader(rawLine) ==
    LET line == TrimSpace(rawLine)
    IN  \/ HasPrefix(line, EpicMarker)
        \/ HasPrefix(line, TaskMarker)
        \/ HasPrefix(line, SubtaskMarker)

parseTicketHeader(rawLine, lineNum) ==
    LET line == TrimSpace(rawLine)
        typed ==
            IF HasPrefix(line, EpicMarker)
            THEN [ZeroTicket EXCEPT !.LineNumber = lineNum,
                                    !.Type = TicketTypeEpic,
                                    !.Title = TrimSpace(TrimPrefix(line, EpicMarker))]
            ELSE IF HasPrefix(line, TaskMarker)
            THEN [ZeroTicket EXCEPT !.LineNumber = lineNum,
                                    !.Type = TicketTypeTask,
                                    !.Title = TrimSpace(TrimPrefix(line, TaskMarker))]
            ELSE IF HasPrefix(line, SubtaskMarker)
            THEN [ZeroTicket EXCEPT !.LineNumber = lineNum,
                                    !.Type = TicketTypeSubtask,
                                    !.Title = TrimSpace(TrimPrefix(line, SubtaskMarker))]
            ELSE [ZeroTicket EXCEPT !.LineNumber = lineNum]
        key == extractJiraKey(typed.Title)
    IN  IF key # <<>> THEN [typed EXCEPT !.Key = key] ELSE typed

\* the prefix chosen by the switch of generateHeader; "" for any other type
HeaderPrefix(type) ==
    IF type = TicketTypeEpic THEN EpicMarker \o <<" ">>
    ELSE IF type = TicketTypeTask THEN TaskMarker \o <<" ">>
    ELSE IF type = TicketTypeSubtask THEN SubtaskMarker \o <<" ">>
    ELSE <<>>

generateHeader(ticket) ==
    LET title == IF ticket.Key # <<>>
                 THEN RemoveJiraKey(ticket.Title) \o <<" ", "[">> \o ticket.Key \o <<"]">>
                 ELSE ticket.Title
    IN  HeaderPrefix(ticket.Type) \o title

(***************************************************************************)
(* Document Codec: extractTickets, GenerateMarkdown                        *)
(***************************************************************************)
\* the previous ticket, closed with the accumulated body as its rawContent
CloseTicket(st) ==
    [st.currentTicket EXCEPT !.RawContent = TrimSpace(Join(st.lines, NL))]

\* the loop of extractTickets over the scanned lines L, from line i on
RECURSIVE scanLoop(_, _, _)
scanLoop(L, i, st) ==
    IF i > Len(L) THEN st
    ELSE IF isTicketHeader(L[i]) THEN
        scanLoop(L, i + 1,
                 [tickets |-> IF st.inTicket THEN Append(st.tickets, CloseTicket(st))
                                             ELSE st.tickets,
                  currentTicket |-> parseTicketHeader(L[i], i),
                  inTicket |-> TRUE,
                  inMetadata |-> FALSE,
                  lines |-> <<>>])
    ELSE IF ~st.inTicket THEN scanLoop(L, i + 1, st)
    ELSE IF TrimSpace(L[i]) = Rule THEN
        IF i + 1 <= Len(L)
        THEN IF TrimSpace(L[i + 1]) = MetadataMarker
             THEN scanLoop(L, i + 2,
                           [st EXCEPT !.inMetadata = TRUE,
                                      !.currentTicket = parseMetadataLines(st.lines, @),
                                      !.lines = <<>>])
             ELSE scanLoop(L, i + 2, [st EXCEPT !.lines = @ \o <<L[i], L[i + 1]>>])
        ELSE scanLoop(L, i + 1, [st EXCEPT !.lines = Append(@, L[i])])
    ELSE IF st.inMetadata THEN
        IF TrimSpace(L[i]) = Rule \/ TrimSpace(L[i]) = <<>>
        THEN scanLoop(L, i + 1, [st EXCEPT !.inMetadata = FALSE])
        ELSE scanLoop(L, i + 1,
                      [st EXCEPT !.currentTicket = parseMetadataLine(L[i], @)])
    ELSE scanLoop(L, i + 1, [st EXCEPT !.lines = Append(@, L[i])])

extractTickets(content) ==
    LET st == scanLoop(ScanLines(content), 1,
                       [tickets |-> <<>>, currentTicket |-> ZeroTicket,
                        inTicket |-> FALSE, inMetadata |-> FALSE, lines |-> <<>>])
        last == IF st.inMetadata THEN st.currentTicket
                ELSE parseMetadataLines(st.lines, st.currentTicket)
    IN  IF st.inTicket
        THEN Append(st.tickets,
                    [last EXCEPT !.RawContent = TrimSpace(Join(st.lines, NL))])
        ELSE st.tickets

\* the "- Field: value" line, when value is not empty
FieldLine(name, value) == IF value = <<>> THEN <<>> ELSE <<<<"-", " ">> \o name \o <<":", " ">> \o value>>

\* the parent reference line chosen by the switch on ticket.Type
ParentLine(ticket) ==
    IF ticket.Type = TicketTypeEpic THEN FieldLine(<<"E", "p", "i", "c", "K", "e", "y">>, ticket.EpicKey)
    ELSE IF ticket.Type = TicketTypeTask THEN FieldLine(<<"P", "a", "r", "e", "n", "t", "K", "e", "y">>, ticket.EpicKey)
    ELSE IF ticket.Type = TicketTypeSubtask THEN FieldLine(<<"T", "a", "s", "k", "K", "e", "y">>, ticket.ParentKey)
    ELSE <<>>

\* the lines GenerateMarkdown appends for one ticket
TicketLines(ticket) ==
    <<generateHeader(ticket)>>
        \o (IF ticket.RawContent # <<>> THEN <<ticket.RawContent>> ELSE <<>>)
        \o (IF ticket.Enriched # <<>>
            THEN <<<<>>, Rule, EnrichedMarker, ticket.Enriched>>
            ELSE <<>>)
        \o <<Rule, MetadataMarker>>
        \o FieldLine(<<"K", "e", "y">>, ticket.Key)
        \o FieldLine(<<"S", "t", "a", "t", "u", "s">>, ticket.Status)
        \o FieldLine(<<"P", "r", "i", "o", "r", "i", "t", "y">>, ticket.Priority)
        \o ParentLine(ticket)
        \o <<<<>>>>
        \o <<<<>>, <<>>>>

RECURSIVE AllTicketLines(_)
AllTicketLines(tickets) ==
    IF tickets = <<>> THEN <<>>
    ELSE TicketLines(Head(tickets)) \o AllTicketLines(Tail(tickets))

GenerateMarkdown(tickets) == Join(AllTicketLines(tickets), NL)

\* generateImportedTicketMarkdown: the header line of an imported ticket
ImportedHeaderPrefix(type) ==
    IF type = TicketTypeEpic THEN <<"#", " ", "e", "p", "i", "c", ":", " ">>
    ELSE IF type = TicketTypeTask THEN <<"#", "#", " ", "t", "a", "s", "k", ":", " ">>
    ELSE IF type = TicketTypeSubtask THEN <<"#", "#", "#", " ", "s", "u", "b", "t", "a", "s", "k", ":", " ">>
    ELSE IF type = TicketTypeSpike THEN <<"#", "#", "#", "#", " ", "s", "p", "i", "k", "e", ":", " ">>
    ELSE <<>>

importedHeader(ticket) ==
    IF ImportedHeaderPrefix(ticket.Type) = <<>> THEN <<>>
    ELSE ImportedHeaderPrefix(ticket.Type) \o ticket.Title \o <<" ", "[">> \o ticket.Key \o <<"]">>

(***************************************************************************)
(* Files that are not there, and operations not yet run                    *)
(***************************************************************************)
\* the content of a file that does not exist
NoFile == "NoFile"

\* no Manager method has been called yet
NoCall == [method |-> "none"]

\* the tickets directory does not exist
NoDir == "no such directory"

\* no directory operation has run yet
NoRet == [op |-> "none"]

(***************************************************************************)
(* Text as bytes: a character outside ASCII is the bytes of its UTF-8      *)
(* encoding, each written "xHH". The second-byte ranges of the encodings   *)
(* are not modelled; the inputs hold no byte sequence outside them.        *)
(***************************************************************************)
\* first bytes of a two-, three- and four-byte encoding, and following bytes
Lead2 == {"xC3"}

Lead3 == {"xEF"}

Lead4 == {"xF0"}

Continuation == {"x80", "x89", "x9A", "x9F", "xBD", "xBF"}

\* utf8.DecodeRuneInString at i: the width of the encoding, 0 when invalid
RuneWidth(s, i) ==
    LET follows(n) == /\ i + n <= Len(s)
                      /\ \A k \in 1..n : s[i + k] \in Continuation
    IN  IF s[i] \in Lead2 THEN (IF follows(1) THEN 2 ELSE 0)
        ELSE IF s[i] \in Lead3 THEN (IF follows(2) THEN 3 ELSE 0)
        ELSE IF s[i] \in Lead4 THEN (IF follows(3) THEN 4 ELSE 0)
        ELSE IF s[i] \in Continuation THEN 0
        ELSE 1

\* utf8.RuneError (U+FFFD) as encoded
ReplacementChar == <<"xEF", "xBF", "xBD">>

\* the string encoding/json writes for s and reads back: every byte that is
\* not part of a valid encoding becomes U+FFFD; escapes are undone on reading
RECURSIVE CoerceFrom(_, _)
CoerceFrom(s, i) ==
    IF i > Len(s) THEN <<>>
    ELSE LET w == RuneWidth(s, i)
         IN  IF w = 0 THEN ReplacementChar \o CoerceFrom(s, i + 1)
             ELSE SubSeq(s, i, i + w - 1) \o CoerceFrom(s, i + w)

jsonString(s) == CoerceFrom(s, 1)

LowerLetters ==
    <<"a", "b", "c", "d", "e", "f", "g", "h", "i", "j", "k", "l", "m",
      "n", "o", "p", "q", "r", "s", "t", "u", "v", "w", "x", "y", "z">>

UpperLetters ==
    <<"A", "B", "C", "D", "E", "F", "G", "H", "I", "J", "K", "L", "M",
      "N", "O", "P", "Q", "R", "S", "T", "U", "V", "W", "X", "Y", "Z">>

\* strings.ToUpper, for text whose characters outside ASCII have no upper case
ToUpper(s) ==
    [i \in 1..Len(s) |->
        IF \E k \in 1..26 : LowerLetters[k] = s[i]
        THEN UpperLetters[CHOOSE k \in 1..26 : LowerLetters[k] = s[i]]
        ELSE s[i]]

\* strings.Fields: the pieces of s between runs of white space
RECURSIVE Fields(_)
Fields(s) ==
    LET b == RunEnd(s, 1, Whitespace)
    IN  IF b > Len(s) THEN <<>>
        ELSE LET e == MinOf({i \in b..(Len(s) + 1) :
                              i > Len(s) \/ s[i] \in Whitespace})
             IN  <<SubSeq(s, b, e - 1)>> \o Fields(SubSeq(s, e, Len(s)))

DigitChars == <<"0", "1", "2", "3", "4", "5", "6", "7", "8", "9">>

\* fmt's %d of a natural number
RECURSIVE Decimal(_)
Decimal(n) ==
    IF n < 10 THEN <<DigitChars[n + 1]>>
    ELSE Decimal(n \div 10) \o <<DigitChars[(n % 10) + 1]>>

\* key[:3], a slice of bytes
FirstThree(key) == IF Len(key) > 3 THEN SubSeq(key, 1, 3) ELSE key

\* viper's jira.project when it is not configured
DefaultProject == <<"S", "R", "E">>

\* generateEpicKey and generateTaskKey; unix is time.Now().Unix()
generateEpicKey(titleText, unix) ==
    LET words == Fields(titleText)
    IN  IF Len(words) > 0
        THEN FirstThree(ToUpper(words[1])) \o <<"-">> \o Decimal(unix % 10000)
        ELSE DefaultProject \o <<"-">> \o Decimal(unix % 10000)

generateTaskKey(titleText, unix) == generateEpicKey(titleText, unix)

\* generateSubtaskKey
generateSubtaskKey(titleText) ==
    LET words == Fields(ToUpper(titleText))
    IN  IF Len(words) = 0 THEN <<"S", "U", "B", "-", "0", "0", "1">>
        ELSE FirstThree(words[1]) \o <<"-", "0", "0", "1">>

(***************************************************************************)
(* Focus Context (types.Context) and its Manager                           *)
(***************************************************************************)
\* &types.Context{}; Updated is an instant of the wall clock, 0 the zero time
ZeroContext ==
    [EpicKey |-> <<>>, EpicID |-> <<>>, TaskKey |-> <<>>, TaskID |-> <<>>,
     SubtaskKey |-> <<>>, SubtaskID |-> <<>>, Updated |-> 0]

\* the fields with a json tag "...,omitempty", and the tag of each
OmitEmptyFields ==
    {"EpicKey", "EpicID", "TaskKey", "TaskID", "SubtaskKey", "SubtaskID"}

jsonTag ==
    [EpicKey |-> "epic_key", EpicID |-> "epic_id", TaskKey |-> "task_key",
     TaskID |-> "task_id", SubtaskKey |-> "subtask_key",
     SubtaskID |-> "subtask_id", Updated |-> "updated"]

\* the fields of Context in the order of the struct
ContextFields ==
    <<"EpicKey", "EpicID", "TaskKey", "TaskID", "SubtaskKey", "SubtaskID",
      "Updated">>

\* an omitempty member with an empty value is not written
Written(member) == member[1] = jsonTag.Updated \/ member[2] # <<>>

\* json.MarshalIndent of a Context: the members written, <<name, value>>
Marshal(c) ==
    SelectSeq([i \in 1..Len(ContextFields) |->
                  LET f == ContextFields[i]
                  IN  <<jsonTag[f],
                        IF f = "Updated" THEN c[f] ELSE jsonString(c[f])>>],
              Written)

\* json.Unmarshal into c: a member sets its field, the other fields stay
Unmarshal(data, c) ==
    [f \in DOMAIN jsonTag |->
        LET at == {i \in 1..Len(data) : data[i][1] = jsonTag[f]}
        IN  IF at = {} THEN c[f] ELSE data[MaxOf(at)][2]]

\* a current.json that is not a JSON document (a write that failed midway)
Corrupt == "Corrupt"

Nil == "nil"

\* Manager.Load of a new Manager: the context and the error returned
Load(f, now) ==
    IF f = NoFile
    THEN [context |-> [ZeroContext EXCEPT !.Updated = now], err |-> Nil]
    ELSE IF f = Corrupt
    THEN [context |-> ZeroContext, err |-> "failed to parse context file"]
    ELSE [context |-> Unmarshal(f, ZeroContext), err |-> Nil]

\* Manager.Save of context c over file f at instant now: the context, the
\* file and the error it leaves
Save(c, f, now, outcome) ==
    LET stamped == [c EXCEPT !.Updated = now]
    IN  IF outcome = "mkdir"
        THEN [context |-> c, file |-> f,
              err |-> "failed to create context directory"]
        ELSE IF outcome = "write"
        THEN [context |-> stamped, file |-> Corrupt,
              err |-> "failed to write context file"]
        ELSE [context |-> stamped, file |-> Marshal(stamped), err |-> Nil]

SetEpicNoCascade(c, key, id) ==
    [c EXCEPT !.EpicKey = key, !.EpicID = id]

SetEpic(c, key, id) ==
    [c EXCEPT !.EpicKey = key, !.EpicID = id, !.TaskKey = <<>>,
              !.TaskID = <<>>, !.SubtaskKey = <<>>, !.SubtaskID = <<>>]

SetEpicAndTaskKeepSubtask(c, epicKey, epicID, taskKey, taskID) ==
    [c EXCEPT !.EpicKey = epicKey, !.EpicID = epicID, !.TaskKey = taskKey,
              !.TaskID = taskID]

SetEpicAndTask(c, epicKey, epicID, taskKey, taskID) ==
    [c EXCEPT !.EpicKey = epicKey, !.EpicID = epicID, !.TaskKey = taskKey,
              !.TaskID = taskID, !.SubtaskKey = <<>>, !.SubtaskID = <<>>]

SetTaskCascadeUp(c, key, id) ==
    [c EXCEPT !.EpicKey = <<>>, !.EpicID = <<>>, !.TaskKey = key,
              !.TaskID = id, !.SubtaskKey = <<>>, !.SubtaskID = <<>>]

SetTask(c, key, id) ==
    [c EXCEPT !.TaskKey = key, !.TaskID = id, !.SubtaskKey = <<>>,
              !.SubtaskID = <<>>]

SetSubtask(c, key, id) ==
    [c EXCEPT !.SubtaskKey = key, !.SubtaskID = id]

SetFullContext(c, epicKey, epicID, taskKey, taskID, subtaskKey, subtaskID) ==
    [c EXCEPT !.EpicKey = epicKey, !.EpicID = epicID, !.TaskKey = taskKey,
              !.TaskID = taskID, !.SubtaskKey = subtaskKey,
              !.SubtaskID = subtaskID]

Clear(c) ==
    [c EXCEPT !.EpicKey = <<>>, !.EpicID = <<>>, !.TaskKey = <<>>,
              !.TaskID = <<>>, !.SubtaskKey = <<>>, !.SubtaskID = <<>>]

\* the key and id fields of a context
Focus(c) ==
    <<c.EpicKey, c.EpicID, c.TaskKey, c.TaskID, c.SubtaskKey, c.SubtaskID>>

HasEpic(c) == c.EpicKey # <<>>

HasTask(c) == c.TaskKey # <<>>

HasSubtask(c) == c.SubtaskKey # <<>>

\* the separator of String, " → ", with the arrow as one character
Arrow == <<" ", "->", " ">>

NoContextSet == <<"N", "o", " ", "c", "o", "n", "t", "e", "x", "t", " ", "s", "e", "t">>

\* Manager.String
String(c) ==
    IF c.EpicKey = <<>> /\ c.TaskKey = <<>> THEN NoContextSet
    ELSE LET r1 == IF c.EpicKey # <<>> THEN <<"E", "p", "i", "c", ":", " ">> \o c.EpicKey ELSE <<>>
             r2 == IF c.TaskKey # <<>>
                   THEN (IF r1 # <<>> THEN r1 \o Arrow ELSE r1)
                            \o <<"T", "a", "s", "k", ":", " ">> \o c.TaskKey
                   ELSE r1
             r3 == IF c.SubtaskKey # <<>>
                   THEN (IF r2 # <<>> THEN r2 \o Arrow ELSE r2)
                            \o <<"S", "u", "b", "t", "a", "s", "k", ":", " ">> \o c.SubtaskKey
                   ELSE r2
         IN  r3

(***************************************************************************)
(* Ticket Store: ParseFile                                                 *)
(***************************************************************************)
\* ParseFile of a document with content f (NoFile: os.ReadFile fails): the
\* MarkdownFile returned, or nil, and the error
ParseFile(f) ==
    IF f = NoFile
    THEN [nil |-> TRUE, Tickets |-> <<>>, Content |-> <<>>,
          err |-> "failed to read file"]
    ELSE [nil |-> FALSE, Tickets |-> extractTickets(f), Content |-> f,
          err |-> Nil]

(***************************************************************************)
(* Ticket Store: WriteFile                                                 *)
(***************************************************************************)
\* a write that reads the document again and adds the last ticket to it
WriteFileMerging(f, tickets) ==
    IF tickets = <<>> THEN GenerateMarkdown(tickets)
    ELSE LET mdFile == ParseFile(f)
         IN  GenerateMarkdown(Append(IF mdFile.err # Nil THEN <<>>
                                     ELSE mdFile.Tickets,
                                     tickets[Len(tickets)]))

\* WriteFile on a document with content f: os.WriteFile replaces whatever the
\* document holds by the text generated for the tickets
WriteFile(f, tickets) == GenerateMarkdown(tickets)

(***************************************************************************)
(* The tickets directory: NoDir while it does not exist, else its entries  *)
(* in the order os.ReadDir returns them (sorted by name), each a name,     *)
(* whether it is a directory, and the content of a regular file            *)
(***************************************************************************)
\* the bytes of file names in ascending order
ByteOrder ==
    <<" ", "!", "#", "*", "-", ".", "/",
      "0", "1", "2", "3", "4", "5", "6", "7", "8", "9", ":", "<", ">", "?",
      "A", "B", "C", "D", "E", "F", "G", "H", "I", "J", "K", "L", "M",
      "N", "O", "P", "Q", "R", "S", "T", "U", "V", "W", "X", "Y", "Z",
      "[", "]", "_",
      "a", "b", "c", "d", "e", "f", "g", "h", "i", "j", "k", "l", "m",
      "n", "o", "p", "q", "r", "s", "t", "u", "v", "w", "x", "y", "z", "|">>

\* name a sorts before name b
RECURSIVE NameLess(_, _)
NameLess(a, b) ==
    LET Rank(c) == CHOOSE i \in 1..Len(ByteOrder) : ByteOrder[i] = c
    IN  IF b = <<>> THEN FALSE
        ELSE IF a = <<>> THEN TRUE
        ELSE IF a[1] = b[1] THEN NameLess(Tail(a), Tail(b))
        ELSE Rank(a[1]) < Rank(b[1])

\* where name is in directory d
EntryAt(d, name) ==
    IF d = NoDir THEN {} ELSE {i \in 1..Len(d) : d[i].name = name}

\* os.Stat(path) returns no error
Exists(d, name) == EntryAt(d, name) # {}

\* os.ReadFile: the content of the regular file name, NoFile when it fails
Content(d, name) ==
    IF ~Exists(d, name) THEN NoFile
    ELSE LET e == d[CHOOSE i \in EntryAt(d, name) : TRUE]
         IN  IF e.isDir THEN NoFile ELSE e.content

\* os.MkdirAll of the directory, then os.WriteFile(path, content)
PutFile(d, name, content) ==
    LET base == IF d = NoDir THEN <<>> ELSE d
        at == EntryAt(base, name)
        before == Cardinality({i \in 1..Len(base) : NameLess(base[i].name, name)})
    IN  IF at # {}
        THEN [base EXCEPT ![CHOOSE i \in at : TRUE].content = content]
        ELSE SubSeq(base, 1, before)
                 \o <<[name |-> name, isDir |-> FALSE, content |-> content]>>
                 \o SubSeq(base, before + 1, Len(base))

\* os.Rename(from, to): the directory and the error it leaves. An existing
\* regular file at to is replaced without an error.
Rename(d, from, to) ==
    LET Other(e) == e.name # from /\ e.name # to
    IN  IF ~Exists(d, from)
        THEN [dir |-> d, err |-> "no such file or directory"]
        ELSE IF from = to THEN [dir |-> d, err |-> Nil]
        ELSE IF Exists(d, to) /\ d[CHOOSE i \in EntryAt(d, to) : TRUE].isDir
        THEN [dir |-> d, err |-> "file exists"]
        ELSE [dir |-> PutFile(SelectSeq(d, Other), to, Content(d, from)),
              err |-> Nil]

(***************************************************************************)
(* Directory-wide scans                                                    *)
(***************************************************************************)
\* isMarkdownFile of status_tree.go
isMarkdownFile(name) == HasSuffix(name, <<".", "m", "d">>) \/ HasSuffix(name, <<".", "m", "a", "r", "k", "d", "o", "w", "n">>)

\* isMarkdownFile of focus.go
isMarkdownFileFocus(name) == HasSuffix(name, <<".", "m", "d">>)

\* strings.ToLower, for text whose characters outside ASCII have no lower case
ToLower(s) ==
    [i \in 1..Len(s) |->
        IF \E k \in DOMAIN UpperLetters : UpperLetters[k] = s[i]
        THEN LowerLetters[CHOOSE k \in DOMAIN UpperLetters : UpperLetters[k] = s[i]]
        ELSE s[i]]

\* the loop over the entries from the i-th on: the tickets of every regular
\* markdown file that parses, in the order of the entries; wide tells which
\* isMarkdownFile is used
RECURSIVE scanFiles(_, _, _)
scanFiles(d, i, wide) ==
    IF i > Len(d) THEN <<>>
    ELSE LET file == d[i]
             skip == \/ file.isDir
                     \/ ~(IF wide THEN isMarkdownFile(file.name)
                                  ELSE isMarkdownFileFocus(file.name))
         IN  (IF skip THEN <<>> ELSE ParseFile(file.content).Tickets)
                 \o scanFiles(d, i + 1, wide)

\* findAllTickets: the tickets returned (none when it fails) and the error
findAllTickets(d) ==
    IF d = NoDir
    THEN [tickets |-> <<>>, err |-> "could not read tickets directory"]
    ELSE [tickets |-> scanFiles(d, 1, TRUE), err |-> Nil]

\* searchTickets
searchTickets(d, query) ==
    IF d = NoDir THEN [tickets |-> <<>>, err |-> Nil]
    ELSE LET Matches(t) == Contains(ToLower(t.Title), ToLower(query))
         IN  [tickets |-> SelectSeq(scanFiles(d, 1, FALSE), Matches),
              err |-> Nil]

(***************************************************************************)
(* Documents of one task or subtask, and finalizing their file names       *)
(***************************************************************************)
\* the reference line "**Label:** [key](key.md)"
ReferenceLine(label, key) ==
    <<"*", "*">> \o label \o <<":", "*", "*", " ", "[">> \o key \o <<"]", "(">> \o key \o <<".", "m", "d", ")">>

\* the lines both generators end with: body, enriched text and metadata;
\* parentLabel names the line of the coarser level's key
DocumentTail(t, parentLabel, parentKey) ==
    (IF t.RawContent # <<>> THEN <<t.RawContent, <<>>>> ELSE <<>>)
    \o (IF t.Enriched # <<>>
        THEN <<Rule, EnrichedMarker, t.Enriched, <<>>>> ELSE <<>>)
    \o <<Rule, MetadataMarker>>
    \o (IF t.Key # <<>> THEN <<<<"-", " ", "K", "e", "y", ":", " ">> \o t.Key>> ELSE <<>>)
    \o (IF t.Status # <<>> THEN <<<<"-", " ", "S", "t", "a", "t", "u", "s", ":", " ">> \o t.Status>> ELSE <<>>)
    \o (IF t.Priority # <<>> THEN <<<<"-", " ", "P", "r", "i", "o", "r", "i", "t", "y", ":", " ">> \o t.Priority>> ELSE <<>>)
    \o (IF parentKey # <<>> THEN <<parentLabel \o parentKey>> ELSE <<>>)
    \o <<<<>>>>

\* generateTaskMarkdown
generateTaskMarkdown(task) ==
    Join((IF task.EpicKey # <<>>
          THEN <<ReferenceLine(<<"E", "p", "i", "c">>, task.EpicKey), <<>>>> ELSE <<>>)
         \o <<<<"#", "#", " ", "t", "a", "s", "k", ":", " ">> \o task.Title
                  \o (IF task.Key # <<>> THEN <<" ", "[">> \o task.Key \o <<"]">> ELSE <<>>),
              <<>>>>
         \o DocumentTail(task, <<"-", " ", "P", "a", "r", "e", "n", "t", "K", "e", "y", ":", " ">>, task.EpicKey), NL)

\* generateSubtaskMarkdown
generateSubtaskMarkdown(subtask) ==
    Join((IF subtask.ParentKey # <<>>
          THEN <<ReferenceLine(<<"T", "a", "s", "k">>, subtask.ParentKey), <<>>>> ELSE <<>>)
         \o (IF subtask.EpicKey # <<>>
             THEN <<ReferenceLine(<<"E", "p", "i", "c">>, subtask.EpicKey), <<>>>> ELSE <<>>)
         \o <<<<"#", "#", "#", " ", "s", "u", "b", "t", "a", "s", "k", ":", " ">> \o subtask.Title
                  \o (IF subtask.Key # <<>> THEN <<" ", "[">> \o subtask.Key \o <<"]">>
                      ELSE <<>>),
              <<>>>>
         \o DocumentTail(subtask, <<"-", " ", "T", "a", "s", "k", "K", "e", "y", ":", " ">>, subtask.ParentKey), NL)

\* strings.ReplaceAll(s, "--", "-")
RECURSIVE CollapseDashes(_)
CollapseDashes(s) ==
    IF Len(s) < 2 THEN s
    ELSE IF s[1] = "-" /\ s[2] = "-"
    THEN <<"-">> \o CollapseDashes(Tail(Tail(s)))
    ELSE <<s[1]>> \o CollapseDashes(Tail(s))

\* safeTitle: the characters a file name cannot hold become "-", doubled
\* dashes are collapsed, dashes at the ends are trimmed
SafeTitle(titleText) ==
    LET unsafe == {" ", "/", "\\", ":", "*", "?", "\"", "<", ">", "|"}
        dashed == CollapseDashes(
                      [i \in 1..Len(titleText) |->
                          IF titleText[i] \in unsafe THEN "-" ELSE titleText[i]])
        keep == {i \in 1..Len(dashed) : dashed[i] # "-"}
    IN  IF keep = {} THEN <<>> ELSE SubSeq(dashed, MinOf(keep), MaxOf(keep))

\* newFilename
NewFilename(key, titleText) == key \o <<"-">> \o SafeTitle(titleText) \o <<".", "m", "d">>

\* renameEpicFile: the directory, the new path and the error it leaves
renameEpicFile(d, currentPath, epicKey, epicTickets) ==
    LET at == {i \in 1..Len(epicTickets) : epicTickets[i].Key = epicKey}
        epicTitle == IF at = {} THEN <<>> ELSE epicTickets[MinOf(at)].Title
        newPath == NewFilename(epicKey, epicTitle)
        r == Rename(d, currentPath, newPath)
    IN  IF epicTitle = <<>>
        THEN [dir |-> d, to |-> <<>>, err |-> "could not find epic title for key"]
        ELSE IF Exists(d, newPath)
        THEN [dir |-> d, to |-> newPath, err |-> "epic file already exists"]
        ELSE [dir |-> r.dir, to |-> newPath,
              err |-> IF r.err = Nil THEN Nil ELSE "failed to rename epic file"]

\* renameTaskFile; unix is time.Now().Unix() for a generated key
renameTaskFile(d, currentPath, task, unix) ==
    LET taskKey == IF task.Key = <<>> THEN generateTaskKey(task.Title, unix)
                   ELSE task.Key
        newPath == NewFilename(taskKey, task.Title)
        r == Rename(d, currentPath, newPath)
    IN  IF Exists(d, newPath)
        THEN [dir |-> d, to |-> newPath, err |-> "task file already exists"]
        ELSE [dir |-> r.dir, to |-> newPath,
              err |-> IF r.err = Nil THEN Nil ELSE "failed to rename task file"]

\* renameSubtaskFile
renameSubtaskFile(d, currentPath, subtask) ==
    LET subtaskKey == IF subtask.Key = <<>> THEN generateSubtaskKey(subtask.Title)
                      ELSE subtask.Key
        newPath == NewFilename(subtaskKey, subtask.Title)
        r == Rename(d, currentPath, newPath)
    IN  [dir |-> r.dir, to |-> newPath,
         err |-> IF r.err = Nil THEN Nil ELSE "failed to rename subtask file"]

(***************************************************************************)
(* Writing the key the ticketing service assigned back to the document     *)
(***************************************************************************)
\* updateEpicWithJiraKey once parser.ParseFile(epicFilePath) gave mdFile: the
\* first ticket with the temporary key, or with no key and a title, gets the
\* real key, the document is written back and renameEpicFile finalizes it.
\* existed and targetBefore tell what was at the new path before the rename.
updateEpicWithJiraKey(d, epicFilePath, mdFile, tempKey, realKey) ==
    LET at == {i \in 1..Len(mdFile.Tickets) :
                  \/ mdFile.Tickets[i].Key = tempKey
                  \/ mdFile.Tickets[i].Key = <<>>
                     /\ mdFile.Tickets[i].Title # <<>>}
        updated == IF at = {} THEN mdFile.Tickets
                   ELSE [mdFile.Tickets EXCEPT ![MinOf(at)].Key = realKey]
        written == PutFile(d, epicFilePath, GenerateMarkdown(updated))
        r == renameEpicFile(written, epicFilePath, realKey, updated)
    IN  IF mdFile.err # Nil
        THEN [dir |-> d, to |-> <<>>, err |-> "failed to parse epic file",
              existed |-> FALSE, targetBefore |-> NoFile]
        ELSE [dir |-> r.dir, to |-> r.to,
              err |-> IF r.err = Nil THEN Nil ELSE "failed to rename epic file",
              existed |-> Exists(written, r.to),
              targetBefore |-> Content(written, r.to)]

\* updateTaskWithJiraKey once parser.ParseFile(taskFilePath) gave mdFile: the
\* directory, the error and the task record it leaves to its caller (the
\* record read from the document, when one matches the task)
updateTaskWithJiraKey(d, taskFilePath, mdFile, task, unix) ==
    LET at == {i \in 1..Len(mdFile.Tickets) :
                  /\ mdFile.Tickets[i].Type = TicketTypeTask
                  /\ mdFile.Tickets[i].EpicKey = task.EpicKey
                  /\ mdFile.Tickets[i].Title = task.Title}
        found == IF at = {} THEN task
                 ELSE [mdFile.Tickets[MinOf(at)] EXCEPT !.Key = task.Key]
        r == renameTaskFile(PutFile(d, taskFilePath, generateTaskMarkdown(found)),
                            taskFilePath, found, unix)
    IN  IF mdFile.err # Nil
        THEN [dir |-> d, task |-> task, matched |-> FALSE,
              err |-> "failed to parse task file"]
        ELSE [dir |-> r.dir, task |-> found, matched |-> at # {},
              err |-> IF r.err = Nil THEN Nil ELSE "failed to rename task file"]

\* updateSubtaskWithJiraKey once parser.ParseFile(subtaskFilePath) gave mdFile
updateSubtaskWithJiraKey(d, subtaskFilePath, mdFile, subtask) ==
    LET at == {i \in 1..Len(mdFile.Tickets) :
                  /\ mdFile.Tickets[i].Type = TicketTypeSubtask
                  /\ mdFile.Tickets[i].ParentKey = subtask.ParentKey
                  /\ mdFile.Tickets[i].Title = subtask.Title}
        found == IF at = {} THEN subtask
                 ELSE [mdFile.Tickets[MinOf(at)] EXCEPT !.Key = subtask.Key]
        r == renameSubtaskFile(PutFile(d, subtaskFilePath,
                                       generateSubtaskMarkdown(found)),
                               subtaskFilePath, found)
    IN  IF mdFile.err # Nil
        THEN [dir |-> d, task |-> subtask, matched |-> FALSE,
              err |-> "failed to parse subtask file"]
        ELSE [dir |-> r.dir, task |-> found, matched |-> at # {},
              err |-> r.err]

(***************************************************************************)
(* Choosing the focus from a ticket                                        *)
(***************************************************************************)
\* isJiraKey: the regular expression ^[A-Z]+-\d+$
isJiraKey(s) ==
    \E i \in 2..(Len(s) - 1) :
        /\ s[i] = "-"
        /\ \A k \in 1..(i - 1) : s[k] \in Upper
        /\ \A k \in (i + 1)..Len(s) : s[k] \in Digit

\* focusByKey
focusByKey(c, key) == SetTask(c, key, <<>>)

\* setTicketContext for a ticket read from a document (it has no id)
setTicketContext(c, t) ==
    IF t.Type = TicketTypeEpic THEN SetEpic(c, t.Key, <<>>)
    ELSE IF t.Type = TicketTypeTask
    THEN IF t.EpicKey # <<>>
         THEN SetEpicAndTask(c, t.EpicKey, <<>>, t.Key, <<>>)
         ELSE SetTask(c, t.Key, <<>>)
    ELSE IF t.Type = TicketTypeSubtask
    THEN IF t.EpicKey # <<>> /\ t.ParentKey # <<>>
         THEN SetEpicAndTask(c, t.EpicKey, <<>>, t.ParentKey, <<>>)
         ELSE IF t.EpicKey # <<>> THEN SetEpic(c, t.EpicKey, <<>>)
         ELSE IF t.ParentKey # <<>> THEN SetTask(c, t.ParentKey, <<>>)
         ELSE c
    ELSE c

(***************************************************************************)
(* Import from the ticketing service: the service, importTicketRecursively *)
(* and saveTicketToMarkdown                                                *)
(***************************************************************************)
\* the longest file name part sanitizeFilename keeps
MaxFilenameLength == 50

\* sanitizeFilename: safeTitle, then cut to MaxFilenameLength bytes and
\* trimmed of dashes again
sanitizeFilename(name) ==
    LET safe == SafeTitle(name)
        cut == SubSeq(safe, 1, MaxFilenameLength)
        keep == {i \in 1..Len(cut) : cut[i] # "-"}
    IN  IF Len(safe) <= MaxFilenameLength THEN safe
        ELSE IF keep = {} THEN <<>> ELSE SubSeq(cut, MinOf(keep), MaxOf(keep))

\* generateImportedTicketMarkdown, for a ticket without description, labels
\* and assignee, created and updated at the instant with text `at`
generateImportedTicketMarkdown(ticket, at) ==
    Join((IF ticket.Type = TicketTypeSubtask /\ ticket.ParentKey # <<>>
          THEN <<<<"*", "*", "P", "a", "r", "e", "n", "t", " ", "T", "a", "s", "k", ":", "*", "*", " ", "[">> \o ticket.ParentKey \o <<"]", "(">>
                     \o ticket.ParentKey \o <<"-", "t", "a", "s", "k", ".", "m", "d", ")">>, <<>>>>
          ELSE <<>>)
         \o (IF /\ ticket.Type \in {TicketTypeSubtask, TicketTypeTask,
                                    TicketTypeSpike}
                /\ ticket.EpicKey # <<>>
             THEN <<<<"*", "*", "E", "p", "i", "c", ":", "*", "*", " ", "[">> \o ticket.EpicKey \o <<"]", "(">>
                        \o ticket.EpicKey \o <<"-", "e", "p", "i", "c", ".", "m", "d", ")">>, <<>>>>
             ELSE <<>>)
         \o <<importedHeader(ticket), <<>>, Rule, MetadataMarker,
              <<"-", " ", "K", "e", "y", ":", " ">> \o ticket.Key, <<"-", " ", "S", "t", "a", "t", "u", "s", ":", " ">> \o ticket.Status>>
         \o (IF ticket.Priority # <<>>
             THEN <<<<"-", " ", "P", "r", "i", "o", "r", "i", "t", "y", ":", " ">> \o ticket.Priority>> ELSE <<>>)
         \o (IF /\ ticket.Type \in {TicketTypeTask, TicketTypeSpike}
                /\ ticket.EpicKey # <<>>
             THEN <<<<"-", " ", "P", "a", "r", "e", "n", "t", "K", "e", "y", ":", " ">> \o ticket.EpicKey>>
             ELSE IF ticket.Type = TicketTypeSubtask /\ ticket.ParentKey # <<>>
             THEN <<<<"-", " ", "T", "a", "s", "k", "K", "e", "y", ":", " ">> \o ticket.ParentKey>>
             ELSE <<>>)
         \o <<<<"-", " ", "C", "r", "e", "a", "t", "e", "d", ":", " ">> \o at, <<"-", " ", "U", "p", "d", "a", "t", "e", "d", ":", " ">> \o at, <<>>>>, NL)

\* saveTicketToMarkdown: the directory it leaves, the file name, and whether
\* os.Stat found the file
saveTicketToMarkdown(d, ticket, at) ==
    LET filename == ticket.Key \o <<"-">> \o sanitizeFilename(ticket.Title) \o <<".", "m", "d">>
    IN  [name |-> filename,
         existed |-> Exists(d, filename),
         dir |-> IF Exists(d, filename) THEN d
                 ELSE PutFile(d, filename,
                              generateImportedTicketMarkdown(ticket, at))]

\* Client.GetTicket(key): Issue.Get of the service, which finds an issue by
\* its key or by its id, and convertJiraIssue of the issue found
GetTicket(service, key) ==
    {i.ticket : i \in {j \in service : j.ticket.Key = key \/ j.id = key}}

\* the keys of a set of tickets, in ascending order
RECURSIVE KeysInOrder(_)
KeysInOrder(S) ==
    IF S = {} THEN <<>>
    ELSE LET first == CHOOSE k \in S : \A other \in S \ {k} : NameLess(k, other)
         IN  <<first>> \o KeysInOrder(S \ {first})

\* findChildTickets(parentKey, childType): the keys of the tickets the search
\* returns
findChildTickets(service, parentKey, childType) ==
    KeysInOrder({i.ticket.Key : i \in {j \in service :
        /\ j.ticket.Type = childType
        /\ IF childType = TicketTypeSubtask
           THEN j.ticket.ParentKey = parentKey
           ELSE j.ticket.EpicKey = parentKey}})

\* the key importTicketRecursively imports before the children: the parent
\* task of a subtask, the epic of a task or spike
ParentOf(ticket) ==
    IF ticket.Type = TicketTypeSubtask THEN ticket.ParentKey
    ELSE IF ticket.Type \in {TicketTypeTask, TicketTypeSpike} THEN ticket.EpicKey
    ELSE <<>>

\* the children importTicketRecursively goes through: the tasks, then the
\* spikes of an epic; the subtasks of a task or spike
ChildrenOf(service, ticket) ==
    IF ticket.Type = TicketTypeEpic
    THEN findChildTickets(service, ticket.Key, TicketTypeTask)
             \o findChildTickets(service, ticket.Key, TicketTypeSpike)
    ELSE IF ticket.Type \in {TicketTypeTask, TicketTypeSpike}
    THEN findChildTickets(service, ticket.Key, TicketTypeSubtask)
    ELSE <<>>

(***************************************************************************)
(* Bounds and inputs                                                       *)
(***************************************************************************)
\* longest ticket sequence given to the codec
MaxTickets == 2

\* number of generate-parse passes over one document
MaxPasses == 2

\* number of successive appends to one document
MaxAppends == 2

\* longest hand-written document, in lines
MaxLines == 4

\* longest title given to RemoveJiraKey, in pieces
MaxFragments == 4

\* how many times a title is stripped in a row
MaxStrips == 2

\* the last instant of the wall clock
MaxClock == 1

\* the most entries the tickets directory holds before a command adds one
MaxFiles == 2

\* command invocations running at the same time
MaxInvocations == 2

Ticket(type, title, key, status, priority, epicKey, parentKey, raw, enriched) ==
    [ZeroTicket EXCEPT !.Type = type, !.Title = title, !.Key = key,
                       !.Status = status, !.Priority = priority,
                       !.EpicKey = epicKey, !.ParentKey = parentKey,
                       !.RawContent = raw, !.Enriched = enriched]

\* tickets as the command layer hands them to WriteFile: the three types the
\* codec generates, with and without key, plain and awkward body text
TicketInputs ==
    { Ticket(TicketTypeEpic, <<"F", "i", "x">>, <<>>, <<>>, <<>>, <<>>, <<>>, <<"a">>, <<>>),
      Ticket(TicketTypeTask, <<"F", "i", "x">>, <<"A", "B", "-", "1">>, <<"O", "p", "e", "n">>, <<"H", "i", "g", "h">>, <<"A", "B", "-", "2">>, <<>>, <<"a">>, <<"e">>),
      Ticket(TicketTypeSubtask, <<"F", "i", "x", " ", "C", "D", "-", "2", " ", "n", "o", "w">>, <<>>, <<>>, <<>>, <<>>, <<"A", "B", "-", "1">>, <<>>, <<>>),
      Ticket(TicketTypeTask, <<"G", "o">>, <<>>, <<>>, <<>>, <<>>, <<>>, <<"-", " ", "S", "t", "a", "t", "u", "s", ":", " ", "x", "\n", "-", " ", "K", "e", "y", ":", " ", "Z", "Z", "-", "9">>, <<>>),
      Ticket(TicketTypeEpic, <<"U", "p">>, <<"A", "B", "-", "2">>, <<"O", "p", "e", "n">>, <<>>, <<>>, <<>>, <<"a", "\n", "-", "-", "-">>, <<>>),
      Ticket(TicketTypeTask, <<"F", "i", "x", " ", "[", "A", "B", "-", "1", "]">>, <<"A", "B", "-", "1">>, <<>>, <<"L", "o", "w">>, <<>>, <<>>, <<"a", "\n", "-", "-", "-", "\n", "b">>, <<>>),
      Ticket(TicketTypeTask, <<"G", "o">>, <<>>, <<>>, <<>>, <<"A", "B", "-", "2">>, <<>>, <<"#", "#", " ", "t", "a", "s", "k", ":", " ", "z">>, <<>>),
      Ticket(TicketTypeSubtask, <<"F", "i", "x">>, <<"A", "B", "-", "3">>, <<"O", "p", "e", "n">>, <<>>, <<>>, <<"A", "B", "-", "1">>, <<>>, <<>>),
      Ticket(TicketTypeEpic, <<"U", "p">>, <<>>, <<>>, <<>>, <<>>, <<>>, <<"a">>, <<"e", "\n", "\n", "f">>) }

TicketSeqs(n) == UNION {[1..k -> TicketInputs] : k \in 0..n}

\* lines of a hand-written document
LineInputs ==
    { <<"#", " ", "e", "p", "i", "c", ":", " ", "A">>, <<"#", "#", " ", "t", "a", "s", "k", ":", " ", "B", " ", "[", "A", "B", "-", "1", "]">>, Rule, MetadataMarker,
      <<"-", " ", "K", "e", "y", ":", " ", "A", "B", "-", "2">>, <<>>, <<"x">> }

LineSeqs(n) == UNION {[1..k -> LineInputs] : k \in 0..n}

\* the metadata section as the README shows it (closed by a rule), between
\* the header of its ticket and the header of the next one
ReadmeDocument ==
    << <<"#", " ", "e", "p", "i", "c", ":", " ", "A">>, Rule, MetadataMarker, <<"-", " ", "K", "e", "y", ":", " ", "O", "B", "S", "-", "1", "2", "3">>,
       <<"-", " ", "S", "t", "a", "t", "u", "s", ":", " ", "I", "n", " ", "P", "r", "o", "g", "r", "e", "s", "s">>, <<"-", " ", "P", "r", "i", "o", "r", "i", "t", "y", ":", " ", "H", "i", "g", "h">>, Rule, <<"#", "#", " ", "t", "a", "s", "k", ":", " ", "B">> >>

Documents == {Join(L, NL) : L \in LineSeqs(MaxLines) \cup {ReadmeDocument}}

\* tickets given to the Header Codec alone: every ticket type
HeaderTickets ==
    { Ticket(type, title, key, <<>>, <<>>, <<>>, <<>>, <<>>, <<>>) :
        type \in TicketTypes,
        title \in { <<"F", "i", "x">>, <<"F", "i", "x", " ", "C", "D", "-", "2", " ", "n", "o", "w">>, <<"F", "i", "x", " ", "[", "A", "B", "-", "1", "]">>, <<" ", "U", "p", " ">>, <<>> },
        key \in { <<>>, <<"A", "B", "-", "1">>, <<"X", "Y", "-", "2", "2">> } }

\* owners and lines given to the Metadata Block Codec alone
MetadataOwners ==
    { Ticket(type, <<"F", "i", "x">>, <<>>, <<>>, <<>>, epicKey, parentKey, <<>>, <<>>) :
        type \in TicketTypes,
        epicKey \in { <<>>, <<"E", "-", "1">> },
        parentKey \in { <<>>, <<"P", "-", "1">> } }

MetadataValue == <<"V", "-", "7">>

ParentKeyLine == <<"-", " ", "P", "a", "r", "e", "n", "t", "K", "e", "y", ":", " ", "V", "-", "7">>

TaskKeyLine == <<"-", " ", "T", "a", "s", "k", "K", "e", "y", ":", " ", "V", "-", "7">>

MetadataLineInputs ==
    { ParentKeyLine, TaskKeyLine, <<"-", " ", "E", "p", "i", "c", "K", "e", "y", ":", " ", "V", "-", "7">>, <<"-", " ", "K", "e", "y", ":", " ", "V", "-", "7">>,
      <<"-", " ", "S", "t", "a", "t", "u", "s", ":", " ", "D", "o", "n", "e">>, <<"-", " ", "L", "a", "b", "e", "l", "s", ":", " ", "a", ",", " ", "b">>, <<"P", "a", "r", "e", "n", "t", "K", "e", "y", ":", " ", "V", "-", "7">>,
      <<" ", " ", "-", " ", "P", "r", "i", "o", "r", "i", "t", "y", ":", " ", " ", "H", "i", "g", "h", " ">>, <<"-", " ", "P", "a", "r", "e", "n", "t", "T", "a", "s", "k", ":", " ", "V", "-", "7">>, <<"-", " ", "P", "a", "r", "e", "n", "t", "E", "p", "i", "c", ":", " ", "V", "-", "7">>,
      <<"-", " ", "K", "e", "y", "b", "o", "a", "r", "d", ":", " ", "V", "-", "7">> }

\* pieces of title text, and the longest title in pieces
Fragments == {<<"A">>, <<" ">>, <<"[", "B", "-", "1", "]">>, <<"B", "-", "1">>, <<"-", "2">>, <<"x">>}

RECURSIVE FragmentTexts(_)
FragmentTexts(n) ==
    IF n = 0 THEN {<<>>}
    ELSE LET shorter == FragmentTexts(n - 1)
         IN  shorter \cup {t \o f : t \in shorter, f \in Fragments}

TitleInputs == FragmentTexts(MaxFragments)

\* the instants the wall clock shows, 1..MaxClock
Clock == 1..MaxClock

\* the key and id of the tickets the commands focus: OBS-1 with an id, OBS-3
\* without; the task OBS-2 and the subtask OBS-4
EpicInputs == {<<<<"O", "B", "S", "-", "1">>, <<"1", "0">>>>, <<<<"O", "B", "S", "-", "3">>, <<>>>>}

TaskInputs == {<<<<"O", "B", "S", "-", "2">>, <<"2", "0">>>>}

SubtaskInputs == {<<<<"O", "B", "S", "-", "4">>, <<"3", "0">>>>}

\* the title of a new epic: a rocket (U+1F680) followed by " go"
EpicTitleInputs == {<<"xF0", "x9F", "x9A", "x80", " ", "g", "o">>}

\* time.Now().Unix() when the key of a new epic is generated
UnixInputs == {1761234}

\* the temporary keys runEpic focuses before the epic has a key
TempEpicKeys == {generateEpicKey(t, u) : t \in EpicTitleInputs, u \in UnixInputs}

\* the epic and the task of a ticket, as setTicketContext passes them on
EpicAndTaskInputs ==
    {<<e[1], <<>>, t[1], t[2]>> : e \in EpicInputs, t \in TaskInputs}

\* whole contexts for SetFullContext: a subtask alone, an epic with a task,
\* and all three levels
FullContextInputs ==
    { <<<<>>, <<>>, <<>>, <<>>, <<"O", "B", "S", "-", "4">>, <<"3", "0">>>>,
      <<<<"O", "B", "S", "-", "1">>, <<"1", "0">>, <<"O", "B", "S", "-", "2">>, <<"2", "0">>, <<>>, <<>>>>,
      <<<<"O", "B", "S", "-", "1">>, <<"1", "0">>, <<"O", "B", "S", "-", "2">>, <<"2", "0">>, <<"O", "B", "S", "-", "4">>, <<"3", "0">>>> }

\* the ways Save ends: written, MkdirAll fails, WriteFile fails after it has
\* truncated the file
SaveOutcomes == {"ok", "mkdir", "write"}

\* the tickets directory at the start: not there yet, or holding what the
\* scans skip (a subdirectory, a hand-written .markdown file)
DirInputs ==
    { NoDir,
      << [name |-> <<"a", "r", "c", "h", "i", "v", "e">>, isDir |-> TRUE, content |-> <<>>],
         [name |-> <<"o", "l", "d", ".", "m", "a", "r", "k", "d", "o", "w", "n">>, isDir |-> FALSE, content |-> <<"#", " ", "e", "p", "i", "c", ":", " ", "O", "l", "d", " ", "p", "l", "a", "n">>] >> }

\* subtasks as runSubtask builds them without Jira: no key, the title the
\* first line of the draft, the focused task and epic
DirSubtasks ==
    { Ticket(TicketTypeSubtask, <<"f", "i", "x", " ", "i", "t">>, <<>>, <<>>, <<>>, <<"O", "B", "S", "-", "1">>, <<"O", "B", "S", "-", "2">>, <<"f", "i", "x", " ", "i", "t", "\n", "n", "o", "w">>, <<>>),
      Ticket(TicketTypeSubtask, <<"f", "i", "x", " ", "i", "t">>, <<>>, <<>>, <<>>, <<"O", "B", "S", "-", "1">>, <<"O", "B", "S", "-", "2">>, <<"f", "i", "x", " ", "i", "t", "\n", "l", "a", "t", "e", "r">>, <<"d", "o", " ", "i", "t">>),
      Ticket(TicketTypeSubtask, <<"F", "i", "x", ":", " ", "l", "o", "g", "s">>, <<>>, <<>>, <<>>, <<>>, <<"O", "B", "S", "-", "2">>, <<"F", "i", "x", ":", " ", "l", "o", "g", "s">>, <<>>) }

\* tasks as runTask builds them without Jira
DirTasks ==
    { Ticket(TicketTypeTask, <<"f", "i", "x", " ", "i", "t">>, <<>>, <<>>, <<>>, <<"O", "B", "S", "-", "1">>, <<>>, <<"f", "i", "x", " ", "i", "t", "\n", "n", "o", "w">>, <<>>),
      Ticket(TicketTypeTask, <<"f", "i", "x", " ", "i", "t">>, <<>>, <<>>, <<>>, <<>>, <<>>, <<"f", "i", "x", " ", "i", "t", "\n", "l", "a", "t", "e", "r">>, <<"d", "o", " ", "i", "t">>) }

\* epics as createNewEpic builds them
DirEpics ==
    { Ticket(TicketTypeEpic, <<"B", "i", "g", " ", "p", "l", "a", "n">>, <<>>, <<>>, <<>>, <<>>, <<>>, <<"B", "i", "g", " ", "p", "l", "a", "n", "\n", "f", "i", "r", "s", "t">>, <<>>),
      Ticket(TicketTypeEpic, <<"B", "i", "g", " ", "p", "l", "a", "n">>, <<>>, <<>>, <<>>, <<>>, <<>>, <<"B", "i", "g", " ", "p", "l", "a", "n", "\n", "s", "e", "c", "o", "n", "d">>, <<"d", "o", " ", "i", "t">>) }

\* the keys Jira answers the creation of an epic with
JiraKeys == {<<"O", "B", "S", "-", "1">>}

\* what the user searches for
QueryInputs == {<<"F", "I", "X">>, <<"p", "l", "a", "n">>}

\* what the ticketing service answers to a creation: not asked (--no-create),
\* asked and failed, or one of the issues with its key and id
JiraOutcomes(issues) ==
    {[asked |-> a, created |-> FALSE, key |-> <<>>, id |-> <<>>] : a \in BOOLEAN}
    \cup {[asked |-> TRUE, created |-> TRUE, key |-> i[1], id |-> i[2]] :
             i \in issues}

\* what the user gives `jai focus`: a key, or words of a title
FocusQueries == {<<"O", "B", "S", "-", "1">>, <<"O", "B", "S", "-", "2">>, <<"b", "i", "g">>, <<"f", "i", "x">>}

\* what the user gives `jai new`
NewContents == {<<"s", "h", "i", "p", " ", "i", "t">>}

\* tickets as runNew builds them from its argument: title and rawContent are
\* the content
RaceTickets ==
    { Ticket(TicketTypeTask, <<"s", "h", "i", "p", " ", "i", "t">>, <<>>, <<>>, <<>>, <<"O", "B", "S", "-", "1">>, <<>>, <<"s", "h", "i", "p", " ", "i", "t">>, <<>>),
      Ticket(TicketTypeTask, <<"l", "o", "g", " ", "i", "t">>, <<>>, <<>>, <<>>, <<"O", "B", "S", "-", "1">>, <<>>, <<"l", "o", "g", " ", "i", "t">>, <<>>) }

\* the document of the epic before the invocations start: as EnsureFileExists
\* creates it, or holding the epic
RaceDocuments ==
    {<<>>} \cup {GenerateMarkdown(<<Ticket(TicketTypeEpic, <<"B", "i", "g", " ", "p", "l", "a", "n">>, <<"O", "B", "S", "-", "1">>,
                                           <<>>, <<>>, <<>>, <<>>, <<>>, <<>>)>>)}

\* what the ticketing service holds, each issue with its id: an epic with a
\* task, a spike and a subtask below it
ServiceTree ==
    { [id |-> <<"1", "0">>, ticket |-> Ticket(TicketTypeEpic, <<"B", "i", "g", " ", "p", "l", "a", "n">>, <<"O", "B", "S", "-", "1">>, <<"O", "p", "e", "n">>, <<>>, <<>>, <<>>, <<>>, <<>>)],
      [id |-> <<"2", "0">>, ticket |-> Ticket(TicketTypeTask, <<"f", "i", "x", " ", "i", "t">>, <<"O", "B", "S", "-", "2">>, <<"O", "p", "e", "n">>, <<"H", "i", "g", "h">>, <<"O", "B", "S", "-", "1">>, <<>>, <<>>, <<>>)],
      [id |-> <<"3", "0">>, ticket |-> Ticket(TicketTypeSubtask, <<"f", "i", "x", " ", "i", "t">>, <<"O", "B", "S", "-", "4">>, <<>>, <<>>, <<>>, <<"O", "B", "S", "-", "2">>, <<>>, <<>>)],
      [id |-> <<"4", "0">>, ticket |-> Ticket(TicketTypeSpike, <<"t", "r", "y", " ", "i", "t">>, <<"O", "B", "S", "-", "5">>, <<>>, <<>>, <<"O", "B", "S", "-", "1">>, <<>>, <<>>, <<>>)] }

\* two tasks that name each other as their epic, and a subtask whose parent
\* the service does not hold
ServiceCycle ==
    { [id |-> <<"2", "0">>, ticket |-> Ticket(TicketTypeTask, <<"f", "i", "x", " ", "i", "t">>, <<"O", "B", "S", "-", "2">>, <<"O", "p", "e", "n">>, <<>>, <<"O", "B", "S", "-", "3">>, <<>>, <<>>, <<>>)],
      [id |-> <<"2", "1">>, ticket |-> Ticket(TicketTypeTask, <<"l", "o", "g", " ", "i", "t">>, <<"O", "B", "S", "-", "3">>, <<"O", "p", "e", "n">>, <<>>, <<"O", "B", "S", "-", "2">>, <<>>, <<>>, <<>>)],
      [id |-> <<"3", "0">>, ticket |-> Ticket(TicketTypeSubtask, <<"f", "i", "x", " ", "i", "t">>, <<"O", "B", "S", "-", "4">>, <<>>, <<>>, <<>>, <<"O", "B", "S", "-", "9">>, <<>>, <<>>)] }

Services == {ServiceTree, ServiceCycle}

\* what the user gives `jai import`: a key or an id of the service, or a key
\* it does not hold
ImportRequests(service) ==
    {i.ticket.Key : i \in service} \cup {i.id : i \in service} \cup {<<"O", "B", "S", "-", "9">>}

\* the tickets directory when the import starts: empty, or with a document
\* of an earlier import
ImportDirs == {<<>>, PutFile(<<>>, <<"O", "B", "S", "-", "2", "-", "f", "i", "x", "-", "i", "t", ".", "m", "d">>, <<"#", "#", " ", "t", "a", "s", "k", ":", " ", "f", "i", "x", " ", "i", "t", " ", "[", "O", "B", "S", "-", "2", "]">>)}

\* the text of the instant an imported ticket was created and updated
ImportedAt == <<"2", "0", "2", "5", "-", "0", "1", "-", "0", "2", " ", "0", "3", ":", "0", "4", ":", "0", "5">>

(***************************************************************************)
(* State                                                                   *)
(***************************************************************************)
VARIABLES
    tickets,    \* the ticket sequence handed to GenerateMarkdown
    text,       \* the document text last generated (or given)
    results,    \* the results of the parses of text so far, oldest first
    pc,         \* the step the codec is at
    file,       \* the stored document: its text, or NoFile
    prior,      \* what the stored document parsed to before the last append
    appended,   \* the tickets appended to the stored document, in order
    ticket,     \* the ticket record given to one codec function
    line,       \* the line given to, or produced by, that function
    out,        \* the ticket record that function returns
    title,      \* the title given to RemoveJiraKey
    stripped,   \* the results of stripping it once, twice, ...
    context,    \* Manager.context, the Focus Context in memory
    contextFile,\* the content of current.json, or NoFile
    call,       \* the last Manager method called, its arguments and outcome
    dir,        \* the tickets directory: its entries by name, or NoDir
    ret,        \* the last directory operation, its arguments and outcome
    invocations,\* addTicketToEpicFile running more than once: where each
                \* invocation is, its ticket and the document it loaded
    stack,      \* the calls of importTicketRecursively in progress, the
                \* innermost last
    imported,   \* the map `imported`: the ticket IDs marked so far
    fetched     \* the keys of the tickets GetTicket returned, in order

vars == <<tickets, text, results, pc, file, prior, appended, ticket, line, out,
          title, stripped, context, contextFile, call, dir, ret,
          invocations, stack, imported, fetched>>

codecVars == <<tickets, text, results>>

storeVars == <<file, prior, appended>>

lineVars == <<ticket, line, out>>

stripVars == <<title, stripped>>

focusVars == <<context, contextFile, call>>

dirVars == <<dir, ret>>

raceVars == <<invocations>>

importVars == <<stack, imported, fetched>>

CodecIdle == tickets = <<>> /\ text = <<>> /\ results = <<>>

StoreIdle == file = NoFile /\ prior = <<>> /\ appended = <<>>

LineIdle == ticket = ZeroTicket /\ line = <<>> /\ out = ZeroTicket

StripIdle == title = <<>> /\ stripped = <<>>

FocusIdle == context = ZeroContext /\ contextFile = NoFile /\ call = NoCall

DirIdle == dir = NoDir /\ ret = NoRet

RaceIdle == invocations = <<>>

ImportIdle == stack = <<>> /\ imported = {} /\ fetched = <<>>

(***************************************************************************)
(* Round trip: WriteFile's GenerateMarkdown, then ParseFile's extractTickets*)
(***************************************************************************)
Init ==
    /\ tickets \in TicketSeqs(MaxTickets)
    /\ text = <<>>
    /\ results = <<>>
    /\ pc = "input"
    /\ StoreIdle
    /\ StripIdle
    /\ RaceIdle
    /\ ImportIdle
    /\ FocusIdle
    /\ DirIdle
    /\ LineIdle

\* WriteFile: the text generated for the tickets
Generate ==
    /\ pc = "input"
    /\ text' = GenerateMarkdown(tickets)
    /\ pc' = "generated"
    /\ UNCHANGED <<tickets, results, storeVars, lineVars, stripVars, raceVars, importVars, focusVars, dirVars>>

\* ParseFile: the tickets extracted from the text
Parse ==
    /\ pc = "generated"
    /\ results' = Append(results, extractTickets(text))
    /\ pc' = "parsed"
    /\ UNCHANGED <<tickets, text, storeVars, lineVars, stripVars, raceVars, importVars, focusVars, dirVars>>

\* WriteFile of the tickets just parsed (the next pass)
Regenerate ==
    /\ pc = "parsed"
    /\ Len(results) < MaxPasses
    /\ text' = GenerateMarkdown(results[Len(results)])
    /\ pc' = "generated"
    /\ UNCHANGED <<tickets, results, storeVars, lineVars, stripVars, raceVars, importVars, focusVars, dirVars>>

Next == Generate \/ Parse \/ Regenerate

Spec == Init /\ [][Next]_vars

(***************************************************************************)
(* Hand-written documents: ParseFile, then WriteFile and ParseFile again   *)
(***************************************************************************)
InitLines ==
    /\ tickets = <<>>
    /\ text \in Documents
    /\ results = <<>>
    /\ pc = "generated"
    /\ StoreIdle
    /\ StripIdle
    /\ RaceIdle
    /\ ImportIdle
    /\ FocusIdle
    /\ DirIdle
    /\ LineIdle

NextLines == Parse \/ Regenerate

SpecLines == InitLines /\ [][NextLines]_vars

(***************************************************************************)
(* Ticket Store: EnsureFileExists, addTicketToEpicFile / addEpicToFile     *)
(***************************************************************************)
InitAppend ==
    /\ CodecIdle
    /\ pc = "store"
    /\ StoreIdle
    /\ StripIdle
    /\ RaceIdle
    /\ ImportIdle
    /\ FocusIdle
    /\ DirIdle
    /\ LineIdle

\* a fresh document that is not empty
LoadOrPlaceholder(f) ==
    LET mdFile == ParseFile(f)
    IN  IF mdFile.err # Nil THEN <<ZeroTicket>> ELSE mdFile.Tickets

\* ParseFile as the append helpers use it: a read error starts a fresh document
LoadOrFresh(f) ==
    LET mdFile == ParseFile(f)
    IN  IF mdFile.err # Nil THEN <<>> ELSE mdFile.Tickets

EnsureFileExists ==
    /\ pc = "store"
    /\ file = NoFile
    /\ file' = <<>>
    /\ UNCHANGED <<codecVars, pc, prior, appended, lineVars, stripVars, raceVars, importVars, focusVars, dirVars>>

\* ParseFile of the stored document
ParseDocument ==
    /\ pc = "store"
    /\ ret' = [op |-> "ParseFile", missing |-> file = NoFile,
               md |-> ParseFile(file)]
    /\ UNCHANGED <<codecVars, pc, storeVars, lineVars, stripVars, raceVars, importVars, focusVars, dir>>

AppendTicket ==
    /\ pc = "store"
    /\ Len(appended) < MaxAppends
    /\ LET loaded == LoadOrFresh(file)
       IN  \E t \in TicketInputs :
              /\ file' = GenerateMarkdown(Append(loaded, t))
              /\ prior' = loaded
              /\ appended' = Append(appended, t)
              /\ ret' = [op |-> "addTicketToEpicFile",
                         missing |-> file = NoFile, ticket |-> t]
    /\ UNCHANGED <<codecVars, pc, lineVars, stripVars, raceVars, importVars, focusVars, dir>>

NextAppend == EnsureFileExists \/ ParseDocument \/ AppendTicket

SpecAppend == InitAppend /\ [][NextAppend]_vars

(***************************************************************************)
(* Header Codec alone                                                      *)
(***************************************************************************)
InitHeader ==
    /\ CodecIdle
    /\ pc = "ticket"
    /\ StoreIdle
    /\ StripIdle
    /\ RaceIdle
    /\ ImportIdle
    /\ FocusIdle
    /\ DirIdle
    /\ ticket \in HeaderTickets
    /\ line = <<>>
    /\ out = ZeroTicket

\* the header line GenerateMarkdown writes
GenerateHeader ==
    /\ pc = "ticket"
    /\ line' = generateHeader(ticket)
    /\ pc' = "header"
    /\ UNCHANGED <<codecVars, storeVars, ticket, out, stripVars, raceVars, importVars, focusVars, dirVars>>

\* the header line the import writes
GenerateImportedHeader ==
    /\ pc = "ticket"
    /\ line' = importedHeader(ticket)
    /\ pc' = "header"
    /\ UNCHANGED <<codecVars, storeVars, ticket, out, stripVars, raceVars, importVars, focusVars, dirVars>>

\* extractTickets on that line: a header opens a ticket
ParseHeader ==
    /\ pc = "header"
    /\ isTicketHeader(line)
    /\ out' = parseTicketHeader(line, 1)
    /\ pc' = "opened"
    /\ UNCHANGED <<codecVars, storeVars, ticket, line, stripVars, raceVars, importVars, focusVars, dirVars>>

\* extractTickets on that line: any other line outside a ticket is skipped
SkipLine ==
    /\ pc = "header"
    /\ ~isTicketHeader(line)
    /\ pc' = "skipped"
    /\ UNCHANGED <<codecVars, storeVars, lineVars, stripVars, raceVars, importVars, focusVars, dirVars>>

NextHeader == GenerateHeader \/ GenerateImportedHeader \/ ParseHeader \/ SkipLine

SpecHeader == InitHeader /\ [][NextHeader]_vars

(***************************************************************************)
(* Metadata Block Codec alone                                              *)
(***************************************************************************)
InitMetadata ==
    /\ CodecIdle
    /\ pc = "line"
    /\ StoreIdle
    /\ StripIdle
    /\ RaceIdle
    /\ ImportIdle
    /\ FocusIdle
    /\ DirIdle
    /\ ticket \in MetadataOwners
    /\ line \in MetadataLineInputs
    /\ out = ZeroTicket

ParseMetadataLine ==
    /\ pc = "line"
    /\ out' = parseMetadataLine(line, ticket)
    /\ pc' = "applied"
    /\ UNCHANGED <<codecVars, storeVars, ticket, line, stripVars, raceVars, importVars, focusVars, dirVars>>

NextMetadata == ParseMetadataLine

SpecMetadata == InitMetadata /\ [][NextMetadata]_vars

(***************************************************************************)
(* Key stripping: RemoveJiraKey applied to its own result                  *)
(***************************************************************************)
InitStrip ==
    /\ CodecIdle
    /\ pc = "strip"
    /\ StoreIdle
    /\ LineIdle
    /\ title \in TitleInputs
    /\ stripped = <<>>
    /\ RaceIdle
    /\ ImportIdle
    /\ FocusIdle
    /\ DirIdle

\* RemoveJiraKey of the title, then of what the last call returned
Strip ==
    /\ pc = "strip"
    /\ Len(stripped) < MaxStrips
    /\ stripped' = Append(stripped,
                      RemoveJiraKey(IF stripped = <<>> THEN title
                                    ELSE stripped[Len(stripped)]))
    /\ UNCHANGED <<codecVars, pc, storeVars, lineVars, title, focusVars, dirVars,
                   raceVars, importVars>>

NextStrip == Strip

SpecStrip == InitStrip /\ [][NextStrip]_vars

(***************************************************************************)
(* Focus Context: a Manager's transitions, each ending in Save, and the    *)
(* Load of the Manager the next command creates                            *)
(***************************************************************************)
InitFocus ==
    /\ CodecIdle
    /\ pc = "focus"
    /\ StoreIdle
    /\ LineIdle
    /\ StripIdle
    /\ RaceIdle
    /\ ImportIdle
    /\ FocusIdle
    /\ DirIdle

\* a command returns when Load fails, before any transition
Loaded == ~(call.method = "Load" /\ call.err # Nil)

\* the method's assignments are in c; Save follows
Transition(method, args, c) ==
    /\ pc = "focus"
    /\ Loaded
    /\ \E now \in Clock, outcome \in SaveOutcomes :
          LET s == Save(c, contextFile, now, outcome)
          IN  /\ context' = s.context
              /\ contextFile' = s.file
              /\ call' = [method |-> method, args |-> args,
                          before |-> Focus(context), err |-> s.err]
    /\ UNCHANGED <<codecVars, pc, storeVars, lineVars, stripVars, raceVars, importVars, dirVars>>

ManagerLoad ==
    /\ pc = "focus"
    /\ \E now \in Clock :
          LET l == Load(contextFile, now)
          IN  /\ context' = l.context
              /\ call' = [method |-> "Load", args |-> <<>>,
                          before |-> Focus(context), err |-> l.err]
    /\ UNCHANGED <<codecVars, pc, storeVars, lineVars, stripVars, raceVars, importVars, dirVars,
                   contextFile>>

ManagerSetEpic ==
    \E a \in EpicInputs \cup {<<k, <<>>>> : k \in TempEpicKeys} :
        Transition("SetEpic", a, SetEpic(context, a[1], a[2]))

ManagerSetEpicAndTask ==
    \E a \in EpicAndTaskInputs :
        Transition("SetEpicAndTask", a,
                   SetEpicAndTask(context, a[1], a[2], a[3], a[4]))

ManagerSetTask ==
    \E a \in TaskInputs :
        Transition("SetTask", a, SetTask(context, a[1], a[2]))

ManagerSetSubtask ==
    \E a \in SubtaskInputs :
        Transition("SetSubtask", a, SetSubtask(context, a[1], a[2]))

ManagerSetFullContext ==
    \E a \in FullContextInputs :
        Transition("SetFullContext", a,
                   SetFullContext(context, a[1], a[2], a[3], a[4], a[5], a[6]))

ManagerClear == Transition("Clear", <<>>, Clear(context))

NextFocus ==
    \/ ManagerLoad
    \/ ManagerSetEpic
    \/ ManagerSetEpicAndTask
    \/ ManagerSetTask
    \/ ManagerSetSubtask
    \/ ManagerSetFullContext
    \/ ManagerClear

SpecFocus == InitFocus /\ [][NextFocus]_vars

(***************************************************************************)
(* SpecDir: the commands that create task, subtask and epic documents in   *)
(* the tickets directory and finalize their file names, and the scans of   *)
(* the whole directory                                                     *)
(***************************************************************************)
InitDir ==
    /\ CodecIdle
    /\ pc = "dir"
    /\ StoreIdle
    /\ LineIdle
    /\ StripIdle
    /\ RaceIdle
    /\ ImportIdle
    /\ FocusIdle
    /\ dir \in DirInputs
    /\ ret = NoRet

\* Parser.GetTaskFilePath("") and Parser.GetEpicFilePath(""), within the
\* tickets directory
InboxPath == <<"i", "n", "b", "o", "x", ".", "m", "d">>

\* the directory has room for the document name
HasRoom(name) == dir = NoDir \/ Exists(dir, name) \/ Len(dir) < MaxFiles

\* what a rename function left: its result and what was at its target before
Renamed(op, r) ==
    [op |-> op, to |-> r.to, err |-> r.err, existed |-> Exists(dir, r.to),
     targetBefore |-> Content(dir, r.to)]

\* createTaskFile at the path runTask gives it
CreateTaskFile ==
    /\ pc = "dir"
    /\ HasRoom(InboxPath)
    /\ \E task \in DirTasks :
          dir' = PutFile(dir, InboxPath, generateTaskMarkdown(task))
    /\ ret' = [op |-> "createTaskFile"]
    /\ UNCHANGED <<codecVars, pc, storeVars, lineVars, stripVars, raceVars, importVars, focusVars>>

\* createSubtaskFile at the path runSubtask gives it
CreateSubtaskFile ==
    /\ pc = "dir"
    /\ HasRoom(InboxPath)
    /\ \E subtask \in DirSubtasks :
          dir' = PutFile(dir, InboxPath, generateSubtaskMarkdown(subtask))
    /\ ret' = [op |-> "createSubtaskFile"]
    /\ UNCHANGED <<codecVars, pc, storeVars, lineVars, stripVars, raceVars, importVars, focusVars>>

\* createNewEpic up to the document of the epic: EnsureFileExists and
\* addEpicToFile at the path of the temporary key
CreateEpicFile ==
    /\ pc = "dir"
    /\ \E epic \in DirEpics, unix \in UnixInputs :
          LET path == generateEpicKey(epic.Title, unix) \o <<".", "m", "d">>
              ensured == IF Exists(dir, path) THEN dir
                         ELSE PutFile(dir, path, <<>>)
              mdFile == ParseFile(Content(ensured, path))
              loaded == IF mdFile.err # Nil THEN <<>> ELSE mdFile.Tickets
          IN  /\ HasRoom(path)
              /\ Len(loaded) < MaxTickets
              /\ dir' = PutFile(ensured, path,
                                GenerateMarkdown(Append(loaded, epic)))
    /\ ret' = [op |-> "addEpicToFile"]
    /\ UNCHANGED <<codecVars, pc, storeVars, lineVars, stripVars, raceVars, importVars, focusVars>>

\* renameTaskFile of the task whose document createTaskFile wrote
RenameTaskFile ==
    /\ pc = "dir"
    /\ \E task \in DirTasks, unix \in UnixInputs :
          /\ generateTaskMarkdown(task) = Content(dir, InboxPath)
          /\ LET r == renameTaskFile(dir, InboxPath, task, unix)
             IN  /\ dir' = r.dir
                 /\ ret' = Renamed("renameTaskFile", r)
    /\ UNCHANGED <<codecVars, pc, storeVars, lineVars, stripVars, raceVars, importVars, focusVars>>

\* renameSubtaskFile of the subtask whose document createSubtaskFile wrote
RenameSubtaskFile ==
    /\ pc = "dir"
    /\ \E subtask \in DirSubtasks :
          /\ generateSubtaskMarkdown(subtask) = Content(dir, InboxPath)
          /\ LET r == renameSubtaskFile(dir, InboxPath, subtask)
             IN  /\ dir' = r.dir
                 /\ ret' = Renamed("renameSubtaskFile", r)
    /\ UNCHANGED <<codecVars, pc, storeVars, lineVars, stripVars, raceVars, importVars, focusVars>>

\* updateEpicWithJiraKey of a document createNewEpic wrote, once Jira has
\* answered with the key
UpdateEpicWithJiraKey ==
    /\ pc = "dir"
    /\ \E epic \in DirEpics, unix \in UnixInputs, realKey \in JiraKeys :
       \E tempKey \in {generateEpicKey(epic.Title, unix)} :
       \E mdFile \in {ParseFile(Content(dir, tempKey \o <<".", "m", "d">>))} :
       \E r \in {updateEpicWithJiraKey(dir, tempKey \o <<".", "m", "d">>, mdFile,
                                       tempKey, realKey)} :
          /\ mdFile.err = Nil
          /\ dir' = r.dir
          /\ ret' = [op |-> "renameEpicFile", to |-> r.to, err |-> r.err,
                     existed |-> r.existed, targetBefore |-> r.targetBefore]
    /\ UNCHANGED <<codecVars, pc, storeVars, lineVars, stripVars, raceVars, importVars, focusVars>>

\* findAllTickets, as the status tree calls it
FindAllTickets ==
    /\ pc = "dir"
    /\ LET r == findAllTickets(dir)
       IN  ret' = [op |-> "findAllTickets", missing |-> dir = NoDir,
                   tickets |-> r.tickets, err |-> r.err]
    /\ UNCHANGED <<codecVars, pc, storeVars, lineVars, stripVars, raceVars, importVars, focusVars, dir>>

\* searchTickets, as focus calls it
SearchTickets ==
    /\ pc = "dir"
    /\ \E query \in QueryInputs :
          LET r == searchTickets(dir, query)
          IN  ret' = [op |-> "searchTickets", missing |-> dir = NoDir,
                      tickets |-> r.tickets, err |-> r.err]
    /\ UNCHANGED <<codecVars, pc, storeVars, lineVars, stripVars, raceVars, importVars, focusVars, dir>>

NextDir ==
    \/ CreateTaskFile
    \/ CreateSubtaskFile
    \/ CreateEpicFile
    \/ RenameTaskFile
    \/ RenameSubtaskFile
    \/ UpdateEpicWithJiraKey
    \/ FindAllTickets
    \/ SearchTickets

SpecDir == InitDir /\ [][NextDir]_vars

(***************************************************************************)
(* SpecCmd: the commands as the user runs them one after another on a      *)
(* fresh data directory: each loads the Focus Context from its file,       *)
(* works on the tickets directory and saves the context it sets            *)
(***************************************************************************)
InitCmd ==
    /\ CodecIdle
    /\ pc = "cmd"
    /\ StoreIdle
    /\ LineIdle
    /\ StripIdle
    /\ RaceIdle
    /\ ImportIdle
    /\ FocusIdle
    /\ DirIdle

\* Parser.GetEpicFilePath and Parser.GetTaskFilePath, within the tickets
\* directory
GetEpicFilePath(key) == IF key = <<>> THEN InboxPath ELSE key \o <<".", "m", "d">>

\* a method of the Manager set the context to c and saved it
Focused(c, now) ==
    /\ context' = Save(c, contextFile, now, "ok").context
    /\ contextFile' = Save(c, contextFile, now, "ok").file

\* the command called no method of the Manager after Load gave c
Kept(c) == context' = c /\ UNCHANGED contextFile

\* the directory has room for one more document
CmdRoom == dir = NoDir \/ Len(dir) < MaxFiles

\* the ticketing service has not given the key to a ticket of the directory
KeyFree(key) ==
    IF dir = NoDir THEN TRUE
    ELSE \A i \in 1..Len(dir) : ~HasPrefix(dir[i].name, key \o <<"-">>)

\* runEpic (createNewEpic): the document at the path of the temporary key,
\* the rename before the review, the focus on the temporary key and, when
\* Jira created the epic, updateEpicWithJiraKey and the focus on the real key
RunEpic ==
    /\ pc = "cmd"
    /\ CmdRoom
    /\ \E epic \in DirEpics, unix \in UnixInputs, now \in Clock,
          jira \in JiraOutcomes(EpicInputs) :
       \E c \in {Load(contextFile, now).context} :
       \E tempEpicKey \in {generateEpicKey(epic.Title, unix)} :
       \E mdFile \in {ParseFile(Content(dir, GetEpicFilePath(tempEpicKey)))} :
       \E added \in {PutFile(dir, GetEpicFilePath(tempEpicKey),
                         GenerateMarkdown(Append(mdFile.Tickets, epic)))} :
       \E renamed \in {renameEpicFile(added, GetEpicFilePath(tempEpicKey),
                                      tempEpicKey, <<epic>>)} :
       \E epicFilePath \in {IF renamed.err = Nil THEN renamed.to
                            ELSE GetEpicFilePath(tempEpicKey)} :
          /\ Len(mdFile.Tickets) < MaxTickets
          /\ jira.created => KeyFree(jira.key)
          /\ IF ~jira.created
             THEN /\ dir' = renamed.dir
                  /\ Focused(SetEpic(c, tempEpicKey, <<>>), now)
                  /\ ret' = [op |-> "runEpic", err |-> Nil, key |-> tempEpicKey,
                             jira |-> jira, written |-> epic]
             ELSE \E reread \in {ParseFile(Content(renamed.dir, epicFilePath))} :
                  \E u \in {updateEpicWithJiraKey(renamed.dir, epicFilePath,
                                reread, tempEpicKey, jira.key)} :
                     /\ dir' = u.dir
                     /\ Focused(IF u.err = Nil
                                THEN SetEpic(c, jira.key, jira.id)
                                ELSE SetEpic(c, tempEpicKey, <<>>), now)
                     /\ ret' = [op |-> "runEpic", err |-> Nil, key |-> jira.key,
                                jira |-> jira, written |-> epic]
    /\ UNCHANGED <<codecVars, pc, storeVars, lineVars, stripVars, raceVars, importVars, call>>

\* runNew: a task under the focused epic, or a subtask under the focused
\* task, appended to the document at the path of the epic key
RunNew ==
    /\ pc = "cmd"
    /\ \E content \in NewContents, now \in Clock :
       \E c \in {Load(contextFile, now).context} :
          /\ Kept(c)
          /\ IF c.EpicKey = <<>>
             THEN /\ ret' = [op |-> "runNew", err |-> "no epic context set"]
                  /\ UNCHANGED dir
             ELSE \E mdFile \in {ParseFile(Content(dir, GetEpicFilePath(c.EpicKey)))} :
                     /\ CmdRoom
                     /\ Len(mdFile.Tickets) < MaxTickets
                     /\ dir' = PutFile(dir, GetEpicFilePath(c.EpicKey),
                                   GenerateMarkdown(Append(mdFile.Tickets,
                                       Ticket(IF c.TaskKey # <<>>
                                              THEN TicketTypeSubtask
                                              ELSE TicketTypeTask,
                                              content, <<>>, <<>>, <<>>,
                                              c.EpicKey, c.TaskKey, content,
                                              <<>>))))
                     /\ ret' = [op |-> "runNew", err |-> Nil,
                                epicKey |-> c.EpicKey,
                                path |-> GetEpicFilePath(c.EpicKey)]
    /\ UNCHANGED <<codecVars, pc, storeVars, lineVars, stripVars, raceVars, importVars, call>>

\* runFocus with a query: focusByKey when the query looks like a key, else
\* focusByFuzzyMatch on the first ticket searchTickets finds
RunFocus ==
    /\ pc = "cmd"
    /\ UNCHANGED dir
    /\ \E query \in FocusQueries, now \in Clock :
       \E c \in {Load(contextFile, now).context} :
          IF isJiraKey(query)
          THEN /\ Focused(focusByKey(c, query), now)
               /\ ret' = [op |-> "runFocus", err |-> Nil, byKey |-> TRUE,
                          query |-> query]
          ELSE \E found \in {searchTickets(dir, query)} :
                  IF found.tickets = <<>>
                  THEN /\ Kept(c)
                       /\ ret' = [op |-> "runFocus", err |-> "no tickets found",
                                  byKey |-> FALSE, query |-> query]
                  ELSE /\ Focused(setTicketContext(c, found.tickets[1]), now)
                       /\ ret' = [op |-> "runFocus", err |-> Nil,
                                  byKey |-> FALSE, query |-> query,
                                  ticket |-> found.tickets[1]]
    /\ UNCHANGED <<codecVars, pc, storeVars, lineVars, stripVars, raceVars, importVars, call>>

\* runUnfocus
RunUnfocus ==
    /\ pc = "cmd"
    /\ UNCHANGED dir
    /\ \E now \in Clock :
          Focused(Clear(Load(contextFile, now).context), now)
    /\ ret' = [op |-> "runUnfocus", err |-> Nil]
    /\ UNCHANGED <<codecVars, pc, storeVars, lineVars, stripVars, raceVars, importVars, call>>

\* runTask: the task document at the inbox path, then either
\* updateTaskWithJiraKey (Jira created the task), nothing (Jira failed) or
\* renameTaskFile (--no-create), then the focus
RunTask ==
    /\ pc = "cmd"
    /\ \E draft \in DirTasks, orphan \in BOOLEAN, unix \in UnixInputs,
          now \in Clock, jira \in JiraOutcomes(TaskInputs) :
       \E c \in {Load(contextFile, now).context} :
          IF ~orphan /\ ~HasEpic(c)
          THEN /\ Kept(c)
               /\ UNCHANGED dir
               /\ ret' = [op |-> "runTask", err |-> "no epic context set"]
          ELSE \E task \in {[draft EXCEPT !.EpicKey = IF orphan THEN <<>>
                                                      ELSE c.EpicKey]} :
               \E created \in {PutFile(dir, InboxPath,
                                       generateTaskMarkdown(task))} :
               \E done \in {IF jira.created
                            THEN updateTaskWithJiraKey(created, InboxPath,
                                     ParseFile(Content(created, InboxPath)),
                                     [task EXCEPT !.Key = jira.key], unix)
                            ELSE [dir |-> IF jira.asked THEN created
                                          ELSE renameTaskFile(created, InboxPath,
                                                              task, unix).dir,
                                  task |-> task, matched |-> FALSE,
                                  err |-> Nil]} :
                  /\ CmdRoom
                  /\ jira.created => KeyFree(jira.key)
                  /\ dir' = done.dir
                  /\ Focused(IF done.task.Key # <<>>
                             THEN SetTask(c, done.task.Key,
                                          IF done.matched THEN <<>> ELSE jira.id)
                             ELSE IF done.task.EpicKey # <<>>
                             THEN SetEpic(c, done.task.EpicKey, <<>>)
                             ELSE SetTask(c, generateTaskKey(done.task.Title, unix),
                                          <<>>), now)
                  /\ ret' = [op |-> "runTask", err |-> Nil, jira |-> jira,
                             written |-> task, ticket |-> done.task,
                             epicBefore |-> c.EpicKey,
                             inboxExisted |-> Exists(dir, InboxPath),
                             inboxBefore |-> Content(dir, InboxPath)]
    /\ UNCHANGED <<codecVars, pc, storeVars, lineVars, stripVars, raceVars, importVars, call>>

\* runSubtask: EnsureFileExists of the document of the epic (or of the task),
\* the subtask document at the inbox path, then either
\* updateSubtaskWithJiraKey, nothing or renameSubtaskFile
RunSubtask ==
    /\ pc = "cmd"
    /\ \E draft \in DirSubtasks, now \in Clock,
          jira \in JiraOutcomes(SubtaskInputs) :
       \E c \in {Load(contextFile, now).context} :
          /\ Kept(c)
          /\ IF ~HasTask(c)
             THEN /\ UNCHANGED dir
                  /\ ret' = [op |-> "runSubtask", err |-> "no task context set"]
             ELSE \E filePath \in {GetEpicFilePath(IF c.EpicKey # <<>>
                                                   THEN c.EpicKey ELSE c.TaskKey)} :
                  \E ensured \in {IF Exists(dir, filePath) THEN dir
                                  ELSE PutFile(dir, filePath, <<>>)} :
                  \E subtask \in {[draft EXCEPT !.EpicKey = c.EpicKey,
                                                !.ParentKey = c.TaskKey]} :
                  \E created \in {PutFile(ensured, InboxPath,
                                          generateSubtaskMarkdown(subtask))} :
                  \E done \in {IF jira.created
                               THEN updateSubtaskWithJiraKey(created, InboxPath,
                                        ParseFile(Content(created, InboxPath)),
                                        [subtask EXCEPT !.Key = jira.key])
                               ELSE [dir |-> IF jira.asked THEN created
                                             ELSE renameSubtaskFile(created,
                                                      InboxPath, subtask).dir,
                                     task |-> subtask, matched |-> FALSE,
                                     err |-> Nil]} :
                     /\ CmdRoom
                     /\ jira.created => KeyFree(jira.key)
                     /\ dir' = done.dir
                     /\ ret' = [op |-> "runSubtask", err |-> Nil, jira |-> jira,
                                written |-> subtask, ticket |-> done.task,
                                inboxExisted |-> Exists(dir, InboxPath),
                                inboxBefore |-> Content(dir, InboxPath)]
    /\ UNCHANGED <<codecVars, pc, storeVars, lineVars, stripVars, raceVars, importVars, call>>

NextCmd ==
    \/ RunEpic
    \/ RunNew
    \/ RunFocus
    \/ RunUnfocus
    \/ RunTask
    \/ RunSubtask

SpecCmd == InitCmd /\ [][NextCmd]_vars

(***************************************************************************)
(* SpecRace: addTicketToEpicFile of several command invocations on one     *)
(* document, their ParseFile, append and WriteFile steps interleaved       *)
(***************************************************************************)
Invocations == 1..MaxInvocations

InitRace ==
    /\ CodecIdle
    /\ pc = "race"
    /\ file \in RaceDocuments
    /\ prior = <<>>
    /\ appended = <<>>
    /\ LineIdle
    /\ StripIdle
    /\ FocusIdle
    /\ DirIdle
    /\ ImportIdle
    /\ invocations \in [Invocations ->
          {[at |-> "ParseFile", ticket |-> t, Tickets |-> <<>>, err |-> Nil] :
              t \in RaceTickets}]

\* parser.ParseFile(epicFilePath), a read error starting a fresh document
RaceParseFile(p) ==
    /\ pc = "race"
    /\ invocations[p].at = "ParseFile"
    /\ invocations' = [invocations EXCEPT ![p].Tickets = LoadOrFresh(file),
                                          ![p].at = "append"]
    /\ UNCHANGED <<codecVars, pc, storeVars, lineVars, stripVars, focusVars,
                   dirVars, importVars>>

\* mdFile.Tickets = append(mdFile.Tickets, *ticket)
RaceAppend(p) ==
    /\ pc = "race"
    /\ invocations[p].at = "append"
    /\ invocations' = [invocations EXCEPT
                          ![p].Tickets = Append(@, invocations[p].ticket),
                          ![p].at = "WriteFile"]
    /\ UNCHANGED <<codecVars, pc, storeVars, lineVars, stripVars, focusVars,
                   dirVars, importVars>>

\* parser.WriteFile(epicFilePath, mdFile.Tickets), and the return of its error
RaceWriteFile(p) ==
    /\ pc = "race"
    /\ invocations[p].at = "WriteFile"
    /\ file' = WriteFile(file, invocations[p].Tickets)
    /\ prior' = invocations[p].Tickets
    /\ appended' = Append(appended, invocations[p].ticket)
    /\ invocations' = [invocations EXCEPT ![p].at = "returned", ![p].err = Nil]
    /\ ret' = [op |-> "WriteFile", by |-> p]
    /\ UNCHANGED <<codecVars, pc, lineVars, stripVars, focusVars, dir, importVars>>

NextRace ==
    \E p \in Invocations : RaceParseFile(p) \/ RaceAppend(p) \/ RaceWriteFile(p)

SpecRace == InitRace /\ [][NextRace]_vars

(***************************************************************************)
(* SpecImport: `jai import`, importTicketRecursively one call or loop step *)
(* at a time; stack[1] is runImport, which holds the service it talks to   *)
(***************************************************************************)
\* a call of importTicketRecursively(ticketID) at its first statement
Frame(ticketID) ==
    [ticketID |-> ticketID, at |-> "entry", ticket |-> ZeroTicket,
     todo |-> <<>>, all |-> <<>>, err |-> Nil, service |-> {}]

InitImport ==
    /\ CodecIdle
    /\ pc = "import"
    /\ StoreIdle
    /\ LineIdle
    /\ StripIdle
    /\ FocusIdle
    /\ RaceIdle
    /\ ret = NoRet
    /\ dir \in ImportDirs
    /\ imported = {}
    /\ fetched = <<>>
    /\ \E service \in Services :
       \E ticketID \in ImportRequests(service) :
          stack = <<[Frame(<<>>) EXCEPT !.at = "runImport", !.service = service],
                    Frame(ticketID)>>

\* the stack after the innermost call returned (allTickets, err): the caller
\* appends the tickets when err is nil; a recursive caller only warns of an
\* error, runImport returns it
Returned(allTickets, err) ==
    LET n == Len(stack) - 1
        caller == stack[n]
    IN  [SubSeq(stack, 1, n) EXCEPT
            ![n].all = IF err = Nil THEN caller.all \o allTickets ELSE caller.all,
            ![n].err = IF caller.at = "runImport" THEN err ELSE caller.err,
            ![n].at = IF caller.at = "runImport" THEN "done" ELSE caller.at]

\* the top of importTicketRecursively: return at once when imported[ticketID],
\* else GetTicket, return its error, or mark ticketID as imported
ImportFetch ==
    /\ pc = "import"
    /\ Len(stack) > 1
    /\ LET top == stack[Len(stack)]
           got == GetTicket(stack[1].service, top.ticketID)
       IN  /\ top.at = "entry"
           /\ IF top.ticketID \in imported
              THEN /\ stack' = Returned(<<>>, Nil)
                   /\ UNCHANGED <<imported, fetched, ret>>
              ELSE IF got = {}
              THEN /\ stack' = Returned(<<>>, "failed to fetch ticket")
                   /\ ret' = [op |-> "GetTicket", ticketID |-> top.ticketID,
                              err |-> "failed to get Jira issue"]
                   /\ UNCHANGED <<imported, fetched>>
              ELSE \E ticket_ \in got :
                   /\ imported' = imported \cup {top.ticketID}
                   /\ fetched' = Append(fetched, ticket_.Key)
                   /\ stack' = [stack EXCEPT ![Len(stack)].ticket = ticket_,
                                             ![Len(stack)].at = "parent"]
                   /\ ret' = [op |-> "GetTicket", ticketID |-> top.ticketID,
                              err |-> Nil]
    /\ UNCHANGED <<codecVars, pc, storeVars, lineVars, stripVars, focusVars, dir,
                   raceVars>>

\* the first switch: the recursive call for the parent, when the ticket names
\* one; the searches for the children follow it
ImportParent ==
    /\ pc = "import"
    /\ Len(stack) > 1
    /\ LET top == stack[Len(stack)]
           next == [stack EXCEPT
                       ![Len(stack)].at = "children",
                       ![Len(stack)].todo = ChildrenOf(stack[1].service, top.ticket)]
       IN  /\ top.at = "parent"
           /\ stack' = IF ParentOf(top.ticket) # <<>>
                       THEN Append(next, Frame(ParentOf(top.ticket)))
                       ELSE next
    /\ UNCHANGED <<codecVars, pc, storeVars, lineVars, stripVars, focusVars,
                   dirVars, raceVars, imported, fetched>>

\* one round of a loop over the children: the recursive call for a child not
\* yet imported
ImportChild ==
    /\ pc = "import"
    /\ Len(stack) > 1
    /\ LET top == stack[Len(stack)]
           next == [stack EXCEPT ![Len(stack)].todo = Tail(top.todo)]
       IN  /\ top.at = "children"
           /\ top.todo # <<>>
           /\ stack' = IF Head(top.todo) \in imported THEN next
                       ELSE Append(next, Frame(Head(top.todo)))
    /\ UNCHANGED <<codecVars, pc, storeVars, lineVars, stripVars, focusVars,
                   dirVars, raceVars, imported, fetched>>

\* after the loops: saveTicketToMarkdown, and the return of allTickets with
\* the ticket appended
ImportSave ==
    /\ pc = "import"
    /\ Len(stack) > 1
    /\ LET top == stack[Len(stack)]
           saved == saveTicketToMarkdown(dir, top.ticket, ImportedAt)
       IN  /\ top.at = "children"
           /\ top.todo = <<>>
           /\ dir' = saved.dir
           /\ ret' = [op |-> "saveTicketToMarkdown", name |-> saved.name,
                      existed |-> saved.existed,
                      before |-> Content(dir, saved.name)]
           /\ stack' = Returned(Append(top.all, top.ticket.Key), Nil)
    /\ UNCHANGED <<codecVars, pc, storeVars, lineVars, stripVars, focusVars,
                   raceVars, imported, fetched>>

NextImport == ImportFetch \/ ImportParent \/ ImportChild \/ ImportSave

SpecImport == InitImport /\ [][NextImport]_vars

(***************************************************************************)
(* Properties                                                              *)
(***************************************************************************)
\* the state right after the first parse of a generated document
FirstPass == pc = "parsed" /\ Len(results) = 1 /\ tickets # <<>>

\* the type-appropriate parent reference of the round trip
Reference(t) ==
    IF t.Type = TicketTypeTask THEN t.EpicKey
    ELSE IF t.Type = TicketTypeSubtask THEN t.ParentKey
    ELSE <<>>

\* C1: parsing the text generated for a ticket sequence gives back, for every
\* ticket with a non-empty rawContent, that rawContent (trimmed).
C1_RawContentRoundTrip ==
    FirstPass =>
        \A i \in 1..Len(tickets) :
            tickets[i].RawContent # <<>> =>
                /\ i <= Len(results[1])
                /\ results[1][i].RawContent = TrimSpace(tickets[i].RawContent)

\* C2: parsing the text generated for a ticket with a non-empty enrichedContent
\* gives back that enrichedContent, and not as a part of the rawContent.
C2_EnrichedRoundTrip ==
    FirstPass =>
        \A i \in 1..Len(tickets) :
            tickets[i].Enriched # <<>> =>
                /\ i <= Len(results[1])
                /\ results[1][i].Enriched = tickets[i].Enriched
                /\ ~Contains(results[1][i].RawContent, tickets[i].Enriched)

\* the fields on which two ticket records are compared by the round trip
SameRecord(p, t) ==
    /\ p.Type = t.Type
    /\ p.Key = t.Key
    /\ RemoveJiraKey(p.Title) = RemoveJiraKey(t.Title)
    /\ p.Status = t.Status
    /\ p.Priority = t.Priority
    /\ p.RawContent = TrimSpace(t.RawContent)
    /\ p.Enriched = t.Enriched
    /\ Reference(p) = Reference(t)

\* C3: after an append of t to a document that parsed to T1..Tn, the document
\* parses to T1..Tn followed by t, every Ti unchanged in its compared fields.
C3_AppendKeepsEarlierTickets ==
    (file # NoFile /\ appended # <<>>) =>
        LET now == extractTickets(file)
        IN  /\ Len(now) = Len(prior) + 1
            /\ \A i \in 1..Len(prior) : SameRecord(now[i], prior[i])
            /\ SameRecord(now[Len(now)], appended[Len(appended)])

\* the lines a and b occur in the text, one right after the other
AdjacentLines(content, a, b) ==
    LET L == ScanLines(content)
    IN  \E j \in 1..(Len(L) - 1) : L[j] = a /\ L[j + 1] = b

\* number of header lines among the first i lines of L
HeadersUpTo(L, i) == Cardinality({j \in 1..i : isTicketHeader(L[j])})

\* C4: a bare rule inside a ticket whose next line is not the metadata marker
\* (nor the header of the next ticket) is in that ticket's rawContent, followed
\* by that next line, whatever lines follow them in the ticket.
C4_RulePreservedInRawContent ==
    FirstPass =>
        LET L == ScanLines(text)
        IN  \A i \in 1..(Len(L) - 1) :
                ( /\ TrimSpace(L[i]) = Rule
                  /\ TrimSpace(L[i + 1]) # MetadataMarker
                  /\ ~isTicketHeader(L[i + 1])
                  /\ HeadersUpTo(L, i) >= 1 ) =>
                    /\ HeadersUpTo(L, i) <= Len(results[1])
                    /\ AdjacentLines(results[1][HeadersUpTo(L, i)].RawContent,
                                     L[i], L[i + 1])

\* C5: the parse of a document has as many tickets as the document has header
\* lines, whatever line precedes each header.
C5_EveryHeaderOpensTicket ==
    (pc = "parsed" /\ Len(results) = 1) =>
        LET L == ScanLines(text)
        IN  Len(results[1]) = HeadersUpTo(L, Len(L))

\* the title the Header Codec reads back from the header generated for t
HeaderTitle(t) ==
    TrimSpace(IF t.Key # <<>>
              THEN RemoveJiraKey(t.Title) \o <<" ", "[">> \o t.Key \o <<"]">>
              ELSE t.Title)

\* R is S ticket by ticket: as many tickets, each of the type and with the
\* header title of the ticket at its place in S
Corresponds(S, R) ==
    /\ Len(R) = Len(S)
    /\ \A i \in 1..Len(S) :
          /\ R[i].Type = S[i].Type
          /\ R[i].Title = HeaderTitle(S[i])

\* the sequence each parse result is to be compared with
Source(k) == IF k = 1 THEN tickets ELSE results[k - 1]

\* no line of the text s is a ticket header
NoHeaderLine(s) == \A j \in 1..Len(ScanLines(s)) : ~isTicketHeader(ScanLines(s)[j])

SingleLine(s) == \A j \in 1..Len(s) : s[j] # "\n"

\* a ticket of a type the codec generates, with one-line title and metadata
\* values, whose body text has no line that is itself a ticket header
Generable(t) ==
    /\ t.Type \in {TicketTypeEpic, TicketTypeTask, TicketTypeSubtask}
    /\ SingleLine(t.Title) /\ SingleLine(t.Key) /\ SingleLine(t.Status)
    /\ SingleLine(t.Priority) /\ SingleLine(t.EpicKey) /\ SingleLine(t.ParentKey)
    /\ NoHeaderLine(t.RawContent)
    /\ NoHeaderLine(t.Enriched)

\* C6 (as claimed): for every ticket sequence, whatever its text, each
\* generate-parse pass gives as many tickets, ticket by ticket in order.
C6_OrderAndCountAnyText ==
    (pc = "parsed" /\ tickets # <<>>) =>
        \A k \in 1..Len(results) : Corresponds(Source(k), results[k])

\* C6 (amended): the same, for sequences of generable tickets.
C6_OrderAndCount ==
    (pc = "parsed" /\ tickets # <<>>
        /\ \A i \in 1..Len(tickets) : Generable(tickets[i])) =>
        \A k \in 1..Len(results) : Corresponds(Source(k), results[k])

\* C6 witness: two passes done over two tickets, the first with a rule in its body
C6_Witness ==
    /\ pc = "parsed"
    /\ Len(results) = 2
    /\ Len(tickets) = 2
    /\ \A i \in 1..Len(tickets) : Generable(tickets[i])
    /\ Contains(tickets[1].RawContent, Rule)
    /\ tickets[2].Key # <<>>

\* C7: the key parsed back is the original key (empty when it was empty), and
\* the key-stripped title parsed back is the key-stripped original title.
C7_KeyRoundTrip ==
    FirstPass =>
        \A i \in 1..Len(tickets) :
            /\ i <= Len(results[1])
            /\ results[1][i].Key = tickets[i].Key
            /\ RemoveJiraKey(results[1][i].Title) = RemoveJiraKey(tickets[i].Title)

\* C8: status, priority and the type-appropriate reference parsed back are the
\* originals (empty when they were empty).
C8_MetadataRoundTrip ==
    FirstPass =>
        \A i \in 1..Len(tickets) :
            /\ i <= Len(results[1])
            /\ results[1][i].Status = tickets[i].Status
            /\ results[1][i].Priority = tickets[i].Priority
            /\ Reference(results[1][i]) = Reference(tickets[i])

\* C9: the header line written for a ticket of any of the four types is
\* recognised as a header and parsed back to the ticket's type.
C9_HeaderMarkerExact ==
    pc = "header" =>
        /\ isTicketHeader(line)
        /\ parseTicketHeader(line, 1).Type = ticket.Type

C11_StripIdempotent ==
    Len(stripped) >= 2 => stripped[2] = stripped[1]

\* C12: after SetEpic(X) from any state the epic key is X and the task and
\* subtask keys and ids are empty, so HasTask and HasSubtask are false.
C12_CascadingFocusReset ==
    call.method = "SetEpic" =>
        /\ context.EpicKey = call.args[1]
        /\ ~HasTask(context)
        /\ ~HasSubtask(context)
        /\ context.TaskID = <<>>
        /\ context.SubtaskID = <<>>

\* the context of a call, before it: <<epic key, epic id, task key, ...>>
BeforeEpicKey == call.before[1]

BeforeEpicID == call.before[2]

BeforeTaskKey == call.before[3]

BeforeTaskID == call.before[4]

BeforeSubtaskKey == call.before[5]

\* SetEpic(OBS-3) was called with the epic OBS-1, the task OBS-2 and a
\* subtask in focus
C12_Witness ==
    /\ call.method = "SetEpic"
    /\ call.args[1] = <<"O", "B", "S", "-", "3">>
    /\ BeforeEpicKey = <<"O", "B", "S", "-", "1">>
    /\ BeforeTaskKey = <<"O", "B", "S", "-", "2">>
    /\ BeforeSubtaskKey # <<>>
    /\ Focus(context) = <<<<"O", "B", "S", "-", "3">>, <<>>, <<>>, <<>>, <<>>, <<>>>>

\* C13: after SetEpicAndTask(X, Y) from any state the epic key is X, the
\* task key is Y and HasSubtask is false.
C13_CombinedSet ==
    call.method = "SetEpicAndTask" =>
        /\ context.EpicKey = call.args[1]
        /\ context.TaskKey = call.args[3]
        /\ ~HasSubtask(context)

\* SetEpicAndTask was called with another epic and a subtask in focus
C13_Witness ==
    /\ call.method = "SetEpicAndTask"
    /\ call.args[1] = <<"O", "B", "S", "-", "1">>
    /\ call.args[3] = <<"O", "B", "S", "-", "2">>
    /\ BeforeEpicKey = <<"O", "B", "S", "-", "3">>
    /\ BeforeSubtaskKey # <<>>
    /\ context.EpicKey = <<"O", "B", "S", "-", "1">>
    /\ context.TaskKey = <<"O", "B", "S", "-", "2">>

\* C14: SetTask leaves the epic key and id as they were and clears the
\* subtask key and id; SetSubtask leaves the epic and task keys and ids as
\* they were.
C14_CoarserLevelsUntouched ==
    /\ call.method = "SetTask" =>
          /\ context.EpicKey = BeforeEpicKey
          /\ context.EpicID = BeforeEpicID
          /\ context.SubtaskKey = <<>>
          /\ context.SubtaskID = <<>>
    /\ call.method = "SetSubtask" =>
          /\ context.EpicKey = BeforeEpicKey
          /\ context.EpicID = BeforeEpicID
          /\ context.TaskKey = BeforeTaskKey
          /\ context.TaskID = BeforeTaskID

\* SetTask was called with an epic (key and id) and a subtask in focus
C14_Witness ==
    /\ call.method = "SetTask"
    /\ call.args[1] = <<"O", "B", "S", "-", "2">>
    /\ BeforeEpicKey = <<"O", "B", "S", "-", "1">>
    /\ BeforeEpicID # <<>>
    /\ BeforeSubtaskKey # <<>>
    /\ context.EpicKey = <<"O", "B", "S", "-", "1">>
    /\ context.TaskKey = <<"O", "B", "S", "-", "2">>
    /\ context.SubtaskKey = <<>>

\* which levels of a context have a key
Levels(c) == <<HasEpic(c), HasTask(c), HasSubtask(c)>>

\* Empty, EpicFocused, EpicAndTaskFocused, EpicAndTaskAndSubtaskFocused,
\* TaskOnlyFocused and TaskAndSubtaskFocused
ListedStates ==
    { <<FALSE, FALSE, FALSE>>, <<TRUE, FALSE, FALSE>>, <<TRUE, TRUE, FALSE>>,
      <<TRUE, TRUE, TRUE>>, <<FALSE, TRUE, FALSE>>, <<FALSE, TRUE, TRUE>> }

\* C15: every context reached from the empty one by the transitions is one
\* of the six listed states; a subtask key comes with a task key.
C15_ListedStatesOnly ==
    /\ Levels(context) \in ListedStates
    /\ HasSubtask(context) => HasTask(context)

NonEmptyKey(level) == level[2] # <<>>

\* the levels that have a key, each as its label and key, epic first
NamedLevels(c) ==
    LET named == SelectSeq(<<<<<<"E", "p", "i", "c", ":", " ">>, c.EpicKey>>, <<<<"T", "a", "s", "k", ":", " ">>, c.TaskKey>>,
                             <<<<"S", "u", "b", "t", "a", "s", "k", ":", " ">>, c.SubtaskKey>>>>, NonEmptyKey)
    IN  [i \in 1..Len(named) |-> named[i][1] \o named[i][2]]

\* C16: the rendering of a context is its levels with a key, joined by the
\* separator in the order epic, task, subtask; it is the "no context" text
\* only when no level has a key.
C16_RenderingNamesLevels ==
    String(context) = IF NamedLevels(context) = <<>> THEN NoContextSet
                      ELSE Join(NamedLevels(context), Arrow)

TransitionMethods ==
    {"SetEpic", "SetEpicAndTask", "SetTask", "SetSubtask", "SetFullContext",
     "Clear"}

\* C17: when a transition has returned without error, a new Manager loads,
\* without error, the key and id fields of the context in memory.
C17_PersistedBeforeReturn ==
    (call.method \in TransitionMethods /\ call.err = Nil) =>
        \A now \in Clock :
            /\ Load(contextFile, now).err = Nil
            /\ Focus(Load(contextFile, now).context) = Focus(context)

\* C18 as stated: loading a document from a path that does not exist returns
\* an empty document, zero tickets, and no error.
C18_MissingFileTolerance ==
    (ret.op = "ParseFile" /\ ret.missing) =>
        /\ ret.md.err = Nil
        /\ ~ret.md.nil
        /\ ret.md.Tickets = <<>>

\* C18 as amended: an append to a path that does not exist takes the failed
\* load for an empty document, so the document written holds the appended
\* ticket alone.
C18_AppendStartsFresh ==
    (ret.op = "addTicketToEpicFile" /\ ret.missing) =>
        /\ prior = <<>>
        /\ file = GenerateMarkdown(<<ret.ticket>>)

\* a ticket with a body was appended to a document that did not exist
C18_Witness ==
    /\ ret.op = "addTicketToEpicFile"
    /\ ret.missing
    /\ ret.ticket.RawContent # <<>>
    /\ Len(appended) = 1
    /\ file # NoFile

(***************************************************************************)
(* Directory-wide scans and file name finalization                         *)
(***************************************************************************)
\* C19: every directory-wide scan of the tickets directory returns zero
\* tickets and no error when the directory does not exist
C19_MissingDirectoryIsEmpty ==
    (ret.op \in {"findAllTickets", "searchTickets"} /\ ret.missing)
        => ret.err = Nil /\ ret.tickets = <<>>

\* C20: finalizing a key-derived file name never replaces an existing
\* document: when the target of the rename of an epic, task or subtask
\* document already exists, the rename fails with an error and the target
\* keeps its content
C20_RenameKeepsExisting ==
    (ret.op \in {"renameEpicFile", "renameTaskFile", "renameSubtaskFile"}
        /\ ret.existed)
        => ret.err # Nil /\ ret.targetBefore = Content(dir, ret.to)

(***************************************************************************)
(* The commands one after another                                          *)
(***************************************************************************)
\* the documents of directory d that hold the record of the epic with key
EpicDocuments(d, key) ==
    IF d = NoDir THEN {} ELSE
    {i \in 1..Len(d) :
        /\ ~d[i].isDir
        /\ isMarkdownFileFocus(d[i].name)
        /\ LET found == ParseFile(d[i].content).Tickets
           IN  \E k \in 1..Len(found) :
                  found[k].Type = TicketTypeEpic /\ found[k].Key = key}

\* C21: once an epic has the key K, the document that holds its record is
\* the one at <tickets>/K.md, so an append under the epic focus K (jai new)
\* lands in the document that holds the record of the epic
C21_AppendLandsInEpicDocument ==
    (ret.op = "runNew" /\ ret.err = Nil /\ EpicDocuments(dir, ret.epicKey) # {})
        => \E i \in EpicDocuments(dir, ret.epicKey) : dir[i].name = ret.path

\* C22: focusing a ticket of type subtask sets the subtask level: after the
\* focus succeeded, subtaskKey is the key of the focused subtask and
\* hasSubtask() is true
C22_FocusSetsSubtaskLevel ==
    (/\ ret.op = "runFocus"
     /\ ret.err = Nil
     /\ ~ret.byKey
     /\ ret.ticket.Type = TicketTypeSubtask
     /\ ret.ticket.Key # <<>>)
        => HasSubtask(context) /\ context.SubtaskKey = ret.ticket.Key

\* C23: after `jai focus K`, K the key of an epic of the directory,
\* hasEpic() is true with epicKey = K, so that `jai task` is not rejected
C23_FocusEpicByKey ==
    (/\ ret.op = "runFocus"
     /\ ret.err = Nil
     /\ ret.byKey
     /\ EpicDocuments(dir, ret.query) # {})
        => HasEpic(context) /\ context.EpicKey = ret.query

\* C24: a creation command leaves the focus on the ticket it created: after
\* `jai task` wrote a ticket, taskKey is not empty, is the key of the task
\* when it has one, and the epic focus is as before; after `jai subtask`
\* wrote a ticket, the same for subtaskKey; with and without Jira
C24_FocusOnCreatedTicket ==
    /\ (ret.op = "runTask" /\ ret.err = Nil)
          => /\ HasTask(context)
             /\ ret.ticket.Key # <<>> => context.TaskKey = ret.ticket.Key
             /\ context.EpicKey = ret.epicBefore
    /\ (ret.op = "runSubtask" /\ ret.err = Nil)
          => /\ HasSubtask(context)
             /\ ret.ticket.Key # <<>> => context.SubtaskKey = ret.ticket.Key

\* the regular documents of a directory
RegularFiles(d) == IF d = NoDir THEN {} ELSE {i \in 1..Len(d) : ~d[i].isDir}

\* C27: assigning the upstream key loses no user data: after an epic, task
\* or subtask was created and the ticketing service returned its key, some
\* document still contains the rawContent and the enrichedContent written
\* before the key was assigned
C27_KeyAssignmentKeepsContent ==
    (/\ ret.op \in {"runEpic", "runTask", "runSubtask"}
     /\ ret.err = Nil
     /\ ret.jira.created)
        => \E i \in RegularFiles(dir) :
              /\ Contains(dir[i].content, ret.written.RawContent)
              /\ Contains(dir[i].content, ret.written.Enriched)

\* C28: creating a task or subtask destroys no ticket of inbox.md: every
\* ticket the inbox document held before the command is a ticket of some
\* document after it
C28_InboxTicketsSurvive ==
    (/\ ret.op \in {"runTask", "runSubtask"}
     /\ ret.err = Nil
     /\ ret.inboxExisted)
        => LET before == ParseFile(ret.inboxBefore).Tickets
           IN  \A k \in 1..Len(before) :
                  \E i \in RegularFiles(dir) :
                     LET after == ParseFile(dir[i].content).Tickets
                     IN  \E j \in 1..Len(after) : after[j] = before[k]

\* the field name of a metadata line: the text between "- " and the first colon
FieldName(rawLine) ==
    LET metaLine == TrimPrefix(TrimSpace(rawLine), <<"-", " ">>)
        colons == {i \in 1..Len(metaLine) : metaLine[i] = ":"}
    IN  IF colons = {} THEN metaLine ELSE SubSeq(metaLine, 1, MinOf(colons) - 1)

IsFieldLine(rawLine) == HasPrefix(TrimSpace(rawLine), <<"-", " ">>)

SpecFieldNames ==
    {<<"K", "e", "y">>, <<"S", "t", "a", "t", "u", "s">>, <<"P", "r", "i", "o", "r", "i", "t", "y">>, <<"E", "p", "i", "c", "K", "e", "y">>, <<"P", "a", "r", "e", "n", "t", "K", "e", "y">>, <<"T", "a", "s", "k", "K", "e", "y">>}

\* C25: a metadata line whose field name is not one of Key, Status, Priority,
\* EpicKey, ParentKey, TaskKey changes no field of the ticket record
C25_UnknownFieldIgnored ==
    (pc = "applied" /\ IsFieldLine(line) /\ FieldName(line) \notin SpecFieldNames)
        => out = ticket

\* C25, amended: a metadata line whose field name is not one of Key, Status,
\* Priority, EpicKey, ParentKey, TaskKey, ParentTask, ParentEpic changes no
\* field of the ticket record
C25_UnrecognizedFieldIgnored ==
    (/\ pc = "applied"
     /\ IsFieldLine(line)
     /\ FieldName(line) \notin SpecFieldNames \cup {<<"P", "a", "r", "e", "n", "t", "T", "a", "s", "k">>, <<"P", "a", "r", "e", "n", "t", "E", "p", "i", "c">>})
        => out = ticket

C25_Witness ==
    /\ pc = "applied"
    /\ line = <<"-", " ", "L", "a", "b", "e", "l", "s", ":", " ", "a", ",", " ", "b">>
    /\ ticket.EpicKey # <<>>
    /\ out = ticket

\* C26: only the field lines of the metadata block change a ticket's key,
\* status, priority and references: in a document with no metadata marker a
\* parsed ticket has the fields of its header line, whether it is the last
\* ticket of the document or not
C26_OnlyMetadataBlockSetsFields ==
    (/\ pc = "parsed"
     /\ Len(results) = 1
     /\ tickets = <<>>
     /\ \A j \in 1..Len(ScanLines(text)) :
           TrimSpace(ScanLines(text)[j]) # MetadataMarker)
        => \A i \in 1..Len(results[1]) :
              LET parsed == results[1][i]
                  header == parseTicketHeader(ScanLines(text)[parsed.LineNumber],
                                              parsed.LineNumber)
              IN  parsed = [header EXCEPT !.RawContent = parsed.RawContent]

(***************************************************************************)
(* Invocations at the same time                                            *)
(***************************************************************************)
AllReturned == pc = "race" /\ \A p \in Invocations : invocations[p].at = "returned"

\* C29: when the ParseFile, append and WriteFile steps of two invocations
\* interleave on one document, the final document is exactly the one the
\* invocation that wrote last wrote (what it loaded, then its ticket), and
\* no invocation returns an error
C29_LastWriteWins ==
    AllReturned =>
        LET last == invocations[ret.by]
        IN  /\ file = GenerateMarkdown(last.Tickets)
            /\ last.Tickets # <<>>
            /\ last.Tickets[Len(last.Tickets)] = last.ticket
            /\ \A p \in Invocations : invocations[p].err = Nil

\* the update of the other invocation is lost: it loaded before the last
\* writer wrote and wrote before it
C29_Witness ==
    /\ AllReturned
    /\ \E p \in Invocations :
          /\ p # ret.by
          /\ invocations[p].ticket # invocations[ret.by].ticket
          /\ Contains(file, invocations[ret.by].ticket.Title)
          /\ ~Contains(file, invocations[p].ticket.Title)

(***************************************************************************)
(* Import                                                                  *)
(***************************************************************************)
\* runImport has the result of importTicketRecursively
ImportDone == pc = "import" /\ Len(stack) = 1 /\ stack[1].at = "done"

\* no key is the key of two tickets GetTicket returned
FetchedOnce ==
    \A i, j \in 1..Len(fetched) : i # j => fetched[i] # fetched[j]

\* a document that was there when saveTicketToMarkdown ran has the content
\* it had
NeverOverwrites ==
    (ret.op = "saveTicketToMarkdown" /\ ret.existed)
        => ret.before = Content(dir, ret.name)

\* what one call still has to do, a recursive call it may make included
FrameWork(frame) ==
    IF frame.at = "entry" THEN 1
    ELSE IF frame.at = "parent"
    THEN 1 + 2 * (1 + Len(ChildrenOf(stack[1].service, frame.ticket)))
    ELSE IF frame.at = "children" THEN 1 + 2 * Len(frame.todo)
    ELSE 0

RECURSIVE StackWork(_)
StackWork(frames) ==
    IF frames = <<>> THEN 0
    ELSE FrameWork(Head(frames)) + StackWork(Tail(frames))

\* the ticket IDs GetTicket answers and the import has not marked, each
\* weighing more than the work a call gains by a fetch, and the work of the
\* calls in progress: every step of the import makes it smaller
ImportMeasure ==
    LET service == stack[1].service
        answered == {i.ticket.Key : i \in service} \cup {i.id : i \in service}
    IN  Cardinality(answered \ imported) * (1 + 2 * (1 + Cardinality(service)))
            + StackWork(stack)

\* C30: the recursive import terminates for every link structure the
\* service returns, cyclic ones included (every step makes ImportMeasure
\* smaller), fetches each ticket key at most once, and never overwrites a
\* document that exists
C30_ImportTerminatesFetchingOnce ==
    [][pc = "import" => /\ ImportMeasure' < ImportMeasure
                        /\ FetchedOnce'
                        /\ NeverOverwrites']_vars

====
